---- MODULE Spec2Model ----
(***************************************************************************)
(* Voice conversation core of the Mimir backend:                           *)
(*   backend/voice/state_machine.py  (VoiceStateMachine)                   *)
(*   backend/voice/session.py        (VoiceSession)                        *)
(*                                                                         *)
(*   backend/voice/session.py        (VoiceSessionManager)                 *)
(*                                                                         *)
(* Five specifications share the variables (the last three are introduced  *)
(* further down: SpecManager, one VoiceSessionManager whose operations     *)
(* overlap; SpecSessions, its sessions each living its own life; and       *)
(* SpecReentrant, the machine with a callback that awaits transition_to    *)
(* on the same machine, under weak fairness of the event loop).            *)
(*   SpecMachine : one VoiceStateMachine used directly by concurrent       *)
(*                 callers, with synchronous and asynchronous callbacks    *)
(*                 registered (an asynchronous callback suspends while     *)
(*                 the transition holds the asyncio.Lock).                 *)
(*   Spec        : one VoiceSession as VoiceSession.__init__ builds it     *)
(*                 (its three synchronous metric callbacks), driven by the *)
(*                 STT-event task, by overlapping calls of                 *)
(*                 synthesize_and_stream, by finish_speaking, and by a     *)
(*                 caller that recovers from Error with transition_to.     *)
(* Every await that reaches a provider or the websocket is a suspension    *)
(* point: the code between two suspension points of a task is one action.  *)
(***************************************************************************)
EXTENDS Integers, Sequences, FiniteSets, TLC

(***************************************************************************)
(* Bounds                                                                  *)
(***************************************************************************)
\* user turns the session counts: FinalTranscript events are delivered
\* while fewer have been counted
MaxTurns == 2
\* synthesize_and_stream calls made over the life of the session
MaxCalls == 2

(***************************************************************************)
(* ConversationState                                                       *)
(***************************************************************************)
IDLE == "idle"
USER_SPEAKING == "user_speaking"
PROCESSING == "processing"
ASSISTANT_SPEAKING == "assistant_speaking"
ERROR == "error"

ConversationState ==
    {IDLE, USER_SPEAKING, PROCESSING, ASSISTANT_SPEAKING, ERROR}

\* Optional[str] stream id: None is 0, a uuid4 is a fresh positive number
NoStream == 0

VARIABLES
    \* VoiceStateMachine
    state, previous_state, tts_stream_id,
    locked, waiters,
    state_callbacks, transition_callbacks,
    \* direct callers of the state machine (SpecMachine)
    mc,
    \* VoiceSession
    current_utterance, metrics, is_active,
    \* environment of the session
    stt, tts, next_stream,
    \* history: the last call of the machine that returned (SpecMachine),
    \* the last operation of the session (Spec)
    last, lastOp,
    \* VoiceSessionManager: the registry, the sessions it made, the calls of
    \* its operations in progress, the next session id, and the history of
    \* the last step of one of its operations (SpecManager)
    registry, sess, mt, next_id, lastMgr

vars ==
    <<state, previous_state, tts_stream_id, locked, waiters,
      state_callbacks, transition_callbacks, mc,
      current_utterance, metrics, is_active, stt, tts,
      next_stream, last, lastOp,
      registry, sess, mt, next_id, lastMgr>>

\* what only the manager specification changes
managerOnly == <<registry, sess, mt, next_id, lastMgr>>

\* what the specification of the machine leaves alone
sessionOnly ==
    <<current_utterance, is_active, stt, tts, next_stream, lastOp,
      managerOnly>>

(***************************************************************************)
(* VoiceStateMachine._is_valid_transition                                  *)
(***************************************************************************)
\* a plausible slip: ERROR left out of the row of USER_SPEAKING
valid_transitions_mut(from_state) ==
    CASE from_state = IDLE -> {USER_SPEAKING, PROCESSING, ERROR}
      [] from_state = USER_SPEAKING -> {PROCESSING, IDLE}
      [] from_state = PROCESSING -> {ASSISTANT_SPEAKING, IDLE, ERROR}
      [] from_state = ASSISTANT_SPEAKING -> {IDLE, USER_SPEAKING, ERROR}
      [] from_state = ERROR -> {IDLE}
      [] OTHER -> {}

valid_transitions(from_state) ==
    CASE from_state = IDLE -> {USER_SPEAKING, PROCESSING, ERROR}
      [] from_state = USER_SPEAKING -> {PROCESSING, IDLE, ERROR}
      [] from_state = PROCESSING -> {ASSISTANT_SPEAKING, IDLE, ERROR}
      [] from_state = ASSISTANT_SPEAKING -> {IDLE, USER_SPEAKING, ERROR}
      [] from_state = ERROR -> {IDLE}
      [] OTHER -> {}

\* a plausible slip: "any -> ERROR" of the docstring extended to "ERROR -> any"
is_valid_transition_mut(from_state, to_state) ==
    \/ from_state = to_state
    \/ to_state \in valid_transitions(from_state)
    \/ from_state = ERROR

\* a plausible slip: the same-state clause (lines 122-124) left out
is_valid_transition_strict(from_state, to_state) ==
    to_state \in valid_transitions(from_state)

is_valid_transition(from_state, to_state) ==
    \/ from_state = to_state
    \/ to_state \in valid_transitions(from_state)

(***************************************************************************)
(* Callbacks.  A callback is named by what it does:                        *)
(*   on_user_speaking / on_processing / on_assistant_speaking are the      *)
(*   session's metric callbacks; "sync" is any other plain function;       *)
(*   "async" is a coroutine function that suspends before it returns;      *)
(*   "raising" is a plain function that raises an Exception;               *)
(*   "async_raising" is a coroutine function that suspends, then raises;   *)
(*   "reentrant" is a coroutine function whose body awaits transition_to   *)
(*   on the machine that is dispatching it.                                *)
(***************************************************************************)
NoMetrics == [user_turns |-> 0, assistant_turns |-> 0, barge_ins |-> 0]

IsAsync(cb) == cb \in {"async", "async_raising", "reentrant"}

\* a plausible slip: each callback compares old_state with the state it is
\* registered for instead of the state the transition must come from
callback_effect_swapped(cb, old_state, m) ==
    CASE cb = "on_user_speaking" ->
            IF old_state = USER_SPEAKING
            THEN [m EXCEPT !.barge_ins = @ + 1] ELSE m
      [] cb = "on_processing" ->
            IF old_state = PROCESSING
            THEN [m EXCEPT !.user_turns = @ + 1] ELSE m
      [] cb = "on_assistant_speaking" ->
            IF old_state = ASSISTANT_SPEAKING
            THEN [m EXCEPT !.assistant_turns = @ + 1] ELSE m
      [] OTHER -> m

\* a plausible slip: the callbacks count without looking at old_state
callback_effect_unguarded(cb, old_state, m) ==
    CASE cb = "on_user_speaking" -> [m EXCEPT !.barge_ins = @ + 1]
      [] cb = "on_processing" -> [m EXCEPT !.user_turns = @ + 1]
      [] cb = "on_assistant_speaking" ->
            [m EXCEPT !.assistant_turns = @ + 1]
      [] OTHER -> m

callback_effect(cb, old_state, m) ==
    CASE cb = "on_user_speaking" ->
            IF old_state = ASSISTANT_SPEAKING
            THEN [m EXCEPT !.barge_ins = @ + 1] ELSE m
      [] cb = "on_processing" ->
            IF old_state = USER_SPEAKING
            THEN [m EXCEPT !.user_turns = @ + 1] ELSE m
      [] cb = "on_assistant_speaking" ->
            IF old_state = PROCESSING
            THEN [m EXCEPT !.assistant_turns = @ + 1] ELSE m
      [] OTHER -> m

\* VoiceSession._setup_state_callbacks
SessionStateCallbacks ==
    [s \in ConversationState |->
        CASE s = USER_SPEAKING -> <<"on_user_speaking">>
          [] s = PROCESSING -> <<"on_processing">>
          [] s = ASSISTANT_SPEAKING -> <<"on_assistant_speaking">>
          [] OTHER -> <<>>]

\* a plausible slip: the global callbacks dispatched before the on-enter
\* ones
CallbackList_mut(new_state) ==
    transition_callbacks \o state_callbacks[new_state]

\* the callbacks one transition into new_state runs, in order
CallbackList(new_state) ==
    state_callbacks[new_state] \o transition_callbacks

\* a plausible slip: no try/except around the call of a callback, so the
\* first plain callback that raises ends the loop
RECURSIVE execute_callbacks_mut(_, _, _, _, _)
execute_callbacks_mut(list, i, old_state, m, fired) ==
    IF i > Len(list)
    THEN [idx |-> i, metrics |-> m, fired |-> fired, suspended |-> FALSE]
    ELSE IF IsAsync(list[i])
    THEN [idx |-> i, metrics |-> m, fired |-> Append(fired, list[i]),
          suspended |-> TRUE]
    ELSE IF list[i] = "raising"
    THEN [idx |-> i, metrics |-> m, fired |-> Append(fired, list[i]),
          suspended |-> FALSE]
    ELSE execute_callbacks_mut(list, i + 1, old_state,
                               callback_effect(list[i], old_state, m),
                               Append(fired, list[i]))

\* _execute_callbacks from position i: runs callbacks until one suspends
\* (an asynchronous one, which has then been invoked) or the list ends.
\* Each call sits in its own try/except Exception (lines 137-146 and
\* 150-159): a callback that raises has been invoked, its exception is
\* logged, and the loop goes on with the next one.
RECURSIVE execute_callbacks(_, _, _, _, _)
execute_callbacks(list, i, old_state, m, fired) ==
    IF i > Len(list)
    THEN [idx |-> i, metrics |-> m, fired |-> fired, suspended |-> FALSE]
    ELSE IF IsAsync(list[i])
    THEN [idx |-> i, metrics |-> m, fired |-> Append(fired, list[i]),
          suspended |-> TRUE]
    ELSE execute_callbacks(list, i + 1, old_state,
                           callback_effect(list[i], old_state, m),
                           Append(fired, list[i]))

(***************************************************************************)
(* Transition metadata (a dict in the code; absent keys are the defaults). *)
(* The confidence of a transcript is a float carried along unchanged and   *)
(* is left out.                                                            *)
(***************************************************************************)
NoMeta ==
    [reason |-> "none", interrupted_stream_id |-> NoStream,
     stream_id |-> NoStream, utterance |-> ""]
BargeInMeta(id) == [NoMeta EXCEPT !.reason = "barge_in",
                                  !.interrupted_stream_id = id]
\* a plausible slip: the first-chunk transition made without its metadata
StreamMeta_mut(id) == NoMeta

StreamMeta(id) == [NoMeta EXCEPT !.stream_id = id]
UtteranceMeta(t) == [NoMeta EXCEPT !.utterance = t]

(***************************************************************************)
(* VoiceStateMachine.transition_to, from the lock being acquired up to the *)
(* first suspension inside a callback (or to the return, when no callback  *)
(* suspends).  m is the machine as the call finds it.                      *)
(***************************************************************************)
Machine == [state |-> state, previous_state |-> previous_state,
            metrics |-> metrics]

\* a plausible slip: previous_state assigned after state (reads the new one)
transition_to_mut(m, new_state) ==
    IF ~is_valid_transition(m.state, new_state)
    THEN [ok |-> FALSE, state |-> m.state,
          previous_state |-> m.previous_state, metrics |-> m.metrics,
          fired |-> <<>>, idx |-> 0, suspended |-> FALSE]
    ELSE LET r == execute_callbacks(CallbackList(new_state), 1, m.state,
                                    m.metrics, <<>>)
         IN  [ok |-> TRUE, state |-> new_state,
              previous_state |-> new_state, metrics |-> r.metrics,
              fired |-> r.fired, idx |-> r.idx, suspended |-> r.suspended]

transition_to(m, new_state) ==
    IF ~is_valid_transition(m.state, new_state)
    THEN [ok |-> FALSE, state |-> m.state,
          previous_state |-> m.previous_state, metrics |-> m.metrics,
          fired |-> <<>>, idx |-> 0, suspended |-> FALSE]
    ELSE LET r == execute_callbacks(CallbackList(new_state), 1, m.state,
                                    m.metrics, <<>>)
         IN  [ok |-> TRUE, state |-> new_state,
              previous_state |-> m.state, metrics |-> r.metrics,
              fired |-> r.fired, idx |-> r.idx, suspended |-> r.suspended]

\* history: what one call of transition_to or handle_barge_in did, kept
\* when the call returns.  checked is the state handle_barge_in read before
\* it asked for the lock (IDLE for a plain transition_to, which reads
\* nothing before the lock); from is the state the validity check read.
CallRecord(op, to, md, checked, m, r, fired) ==
    [op |-> op, to |-> to, md |-> md, checked |-> checked,
     evaluated |-> TRUE,
     from |-> m.state, prev_before |-> m.previous_state,
     ret |-> r.ok, state_after |-> r.state, prev_after |-> r.previous_state,
     fired |-> fired]

NoCall ==
    [op |-> "none", to |-> IDLE, md |-> NoMeta, checked |-> IDLE,
     evaluated |-> FALSE, from |-> IDLE, prev_before |-> IDLE,
     ret |-> FALSE, state_after |-> IDLE, prev_after |-> IDLE,
     fired |-> <<>>]

(***************************************************************************)
(* SpecMachine: concurrent direct callers of one VoiceStateMachine.        *)
(*                                                                         *)
(* asyncio.Lock: acquire() returns without suspending when the lock is     *)
(* free and nobody waits; otherwise the caller joins a FIFO of waiters.    *)
(* release() wakes the first waiter, and a newcomer that finds a woken     *)
(* waiter still queued queues behind it.                                   *)
(***************************************************************************)
Callers == {"c1", "c2", "c3"}

IdleCaller ==
    [pc |-> "idle", op |-> "none", to |-> IDLE, md |-> NoMeta,
     checked |-> IDLE, from |-> IDLE, prev_before |-> IDLE,
     state_after |-> IDLE, prev_after |-> IDLE, idx |-> 0, fired |-> <<>>]

\* a plausible slip: transition_to without "async with self._lock", so a
\* caller never waits
LockFree_mut == TRUE

\* asyncio.Lock.acquire succeeds at once
LockFree == ~locked /\ waiters = <<>>

\* the callback a dispatch is suspended in awaits transition_to on this
\* machine: "async with self._lock" (line 54) finds the lock held, by the
\* very call that dispatches the callback, and the task joins the waiters
Reenters(list, r) == r.suspended /\ list[r.idx] = "reentrant"

\* where a call suspended in a callback stands
SuspendedAt(list, r) ==
    IF Reenters(list, r) THEN "reentering" ELSE "in_callback"

\* transition_to under the lock: lines 55-75, up to the first suspension;
\* w is the queue of waiters as the call finds it
Enter(c, op, to, md, checked, w) ==
    LET m == Machine
        r == transition_to(m, to)
    IN  /\ state' = r.state
        /\ previous_state' = r.previous_state
        /\ metrics' = r.metrics
        /\ locked' = r.suspended
        /\ waiters' = IF Reenters(CallbackList(to), r) THEN Append(w, c)
                      ELSE w
        /\ mc' = [mc EXCEPT ![c] =
                    IF r.suspended
                    THEN [pc |-> SuspendedAt(CallbackList(to), r),
                          op |-> op, to |-> to,
                          md |-> md, checked |-> checked,
                          from |-> m.state,
                          prev_before |-> m.previous_state,
                          state_after |-> r.state,
                          prev_after |-> r.previous_state,
                          idx |-> r.idx, fired |-> r.fired]
                    ELSE IdleCaller]
        /\ last' = IF r.suspended THEN last
                   ELSE CallRecord(op, to, md, checked, m, r, r.fired)

\* the caller finds the lock taken (or waiters queued) and suspends
Enqueue(c, op, to, md, checked) ==
    /\ waiters' = Append(waiters, c)
    /\ mc' = [mc EXCEPT ![c] =
                [IdleCaller EXCEPT !.pc = "waiting", !.op = op, !.to = to,
                                   !.md = md, !.checked = checked]]
    /\ UNCHANGED <<state, previous_state, metrics, locked, last>>

\* await machine.transition_to(to)
CallTransitionTo(c, to) ==
    /\ mc[c].pc = "idle"
    /\ IF LockFree
       THEN Enter(c, "transition_to", to, NoMeta, IDLE, waiters)
       ELSE Enqueue(c, "transition_to", to, NoMeta, IDLE)
    /\ UNCHANGED <<tts_stream_id, state_callbacks, transition_callbacks>>
    /\ UNCHANGED sessionOnly

\* await machine.handle_barge_in(): the state is read before the lock is
\* asked for (line 191), the transition runs under it (lines 200-203)
CallHandleBargeIn(c) ==
    /\ mc[c].pc = "idle"
    /\ IF state # ASSISTANT_SPEAKING
       THEN /\ last' = [NoCall EXCEPT
                            !.op = "handle_barge_in", !.to = USER_SPEAKING,
                            !.md = BargeInMeta(tts_stream_id),
                            !.checked = state, !.from = state,
                            !.prev_before = previous_state,
                            !.state_after = state,
                            !.prev_after = previous_state]
            /\ UNCHANGED <<state, previous_state, metrics, locked, waiters,
                           mc>>
       ELSE IF LockFree
       THEN Enter(c, "handle_barge_in", USER_SPEAKING,
                  BargeInMeta(tts_stream_id), state, waiters)
       ELSE Enqueue(c, "handle_barge_in", USER_SPEAKING,
                    BargeInMeta(tts_stream_id), state)
    /\ UNCHANGED <<tts_stream_id, state_callbacks, transition_callbacks>>
    /\ UNCHANGED sessionOnly

\* release() has woken the first waiter: it now holds the lock
Wake(c) ==
    /\ ~locked
    /\ waiters # <<>>
    /\ c = Head(waiters)
    /\ mc[c].pc = "waiting"
    /\ Enter(c, mc[c].op, mc[c].to, mc[c].md, mc[c].checked, Tail(waiters))
    /\ UNCHANGED <<tts_stream_id, state_callbacks, transition_callbacks>>
    /\ UNCHANGED sessionOnly

\* the asynchronous callback the transition is suspended in completes;
\* _execute_callbacks goes on, and the lock is released on return
Resume(c) ==
    /\ mc[c].pc = "in_callback"
    /\ LET r == execute_callbacks(CallbackList(mc[c].to), mc[c].idx + 1,
                                  mc[c].from, metrics, mc[c].fired)
       IN  /\ metrics' = r.metrics
           /\ locked' = r.suspended
           /\ waiters' = IF Reenters(CallbackList(mc[c].to), r)
                         THEN Append(waiters, c) ELSE waiters
           /\ mc' = [mc EXCEPT ![c] =
                       IF r.suspended
                       THEN [@ EXCEPT !.idx = r.idx, !.fired = r.fired,
                                      !.pc = SuspendedAt(
                                                CallbackList(mc[c].to), r)]
                       ELSE IdleCaller]
           /\ last' = IF r.suspended THEN last
                      ELSE [op |-> mc[c].op, to |-> mc[c].to,
                            md |-> mc[c].md, checked |-> mc[c].checked,
                            evaluated |-> TRUE, from |-> mc[c].from,
                            prev_before |-> mc[c].prev_before,
                            ret |-> TRUE,
                            state_after |-> mc[c].state_after,
                            prev_after |-> mc[c].prev_after,
                            fired |-> r.fired]
    /\ UNCHANGED <<state, previous_state, tts_stream_id,
                   state_callbacks, transition_callbacks>>
    /\ UNCHANGED sessionOnly

\* machine.set_tts_stream_id(id)
SetTtsStreamId(id) ==
    /\ tts_stream_id # id
    /\ tts_stream_id' = id
    /\ UNCHANGED <<state, previous_state, locked, waiters, state_callbacks,
                   transition_callbacks, mc, metrics, last>>
    /\ UNCHANGED sessionOnly

(***************************************************************************)
(* Spec: one VoiceSession.                                                 *)
(*                                                                         *)
(* The session registers only synchronous callbacks, so a transition_to    *)
(* made by a session task never suspends: it finds the lock free, and the  *)
(* whole call (check, mutation, callbacks, release) lies inside the action *)
(* that makes it.                                                          *)
(***************************************************************************)
\* the synthesize_and_stream calls that can be in progress at once; they
\* are interchangeable, and a new call takes the first free one
ResponseTasks == {"r1", "r2"}
TaskOrder == [t \in ResponseTasks |-> IF t = "r1" THEN 1 ELSE 2]
Transcripts == {"t1", "t2"}

Msg(type, st, sid, tr) ==
    [type |-> type, state |-> st, stream_id |-> sid, transcript |-> tr]

IdleStt == [pc |-> "wait_event", transcript |-> ""]
IdleTts ==
    [pc |-> "none", stream_id |-> NoStream, first_chunk |-> TRUE,
     left |-> FALSE, barged |-> FALSE]

NoOp ==
    [op |-> "none", task |-> "none", transcript |-> "", stream |-> NoStream,
     pre_state |-> IDLE, msgs |-> <<>>, cancelled |-> <<>>, attempts |-> 0,
     first |-> FALSE, left |-> FALSE, barged |-> FALSE, md |-> NoMeta,
     resp |-> "none", turn |-> "new", forwarded |-> FALSE,
     touched |-> FALSE]

\* history of one undisturbed response, carried along in lastOp.resp:
\*   "accepted"     a FinalTranscript was accepted (UserSpeaking ->
\*                  Processing) while no synthesize_and_stream call was in
\*                  progress, and nothing but ignored events happened since
\*   "in_segment"   the caller is inside a synthesize_and_stream call of
\*                  that response, every chunk so far forwarded
\*   "segment_done" the provider's stream of that call is exhausted
\*   "finished"     finish_speaking has just been called after that
\* A barge-in, a provider failure, a cancelled stream, an overlapping call
\* or a recovery ends the history ("none").
Track(prev, op, pre, post, msgs, cancelled) ==
    LET p == IF prev = "finished" THEN "none" ELSE prev
    IN  CASE op = "final_transition" ->
                IF /\ pre = USER_SPEAKING
                   /\ post = PROCESSING
                   /\ \A t \in ResponseTasks : tts[t].pc = "none"
                THEN "accepted" ELSE "none"
          [] op = "synthesize" ->
                IF p \in {"accepted", "segment_done"}
                THEN "in_segment" ELSE "none"
          [] op = "tts_chunk" ->
                IF p = "in_segment" /\ cancelled = <<>>
                THEN "in_segment" ELSE "none"
          [] op = "tts_exhausted" ->
                IF p = "in_segment" THEN "segment_done" ELSE "none"
          [] op = "finish_speaking" ->
                IF p = "segment_done" THEN "finished" ELSE "none"
          [] op \in {"partial_transcript", "speech_ended", "audio_in"} -> p
          [] op = "speech_started" ->
                IF pre = PROCESSING THEN p ELSE "none"
          [] op = "final_transcript" ->
                IF msgs = <<>> THEN p ELSE "none"
          [] OTHER -> "none"

\* history of the first turn of a new session, carried along in
\* lastOp.turn, for as long as the session has done exactly this and
\* nothing else: SpeechStarted ("heard"), FinalTranscript up to its send
\* ("final_sent") and its transition ("accepted"), one synthesize_and_stream
\* call ("called") with its chunks ("speaking"), finish_speaking ("done").
\* Any other operation ends it ("off").
Scenario(prev, op, cancelled) ==
    CASE prev = "new" /\ op = "speech_started" -> "heard"
      [] prev = "heard" /\ op = "final_transcript" -> "final_sent"
      [] prev = "final_sent" /\ op = "final_transition" -> "accepted"
      [] prev = "accepted" /\ op = "synthesize" -> "called"
      [] prev \in {"called", "speaking"} /\ op = "tts_chunk"
           /\ cancelled = <<>> -> "speaking"
      [] prev = "speaking" /\ op = "tts_exhausted" -> "speaking"
      [] prev = "speaking" /\ op = "finish_speaking" -> "done"
      [] OTHER -> "off"

\* history: the operation the last step performed.  pre_state: the
\* conversation state it found; msgs: the messages it handed to the
\* websocket; cancelled: its cancel_stream calls; attempts: its
\* transition_to calls; md: the metadata it passed to transition_to;
\* forwarded: it handed audio to the STT provider; touched: it set
\* last_activity.  Every action of the session sets it, so in a step
\* lastOp' names the operation the step is.
OpRecord(op, task, tr, sid, msgs, cancelled, attempts) ==
    [NoOp EXCEPT !.op = op, !.task = task, !.transcript = tr,
                 !.stream = sid, !.pre_state = state,
                 !.msgs = msgs, !.cancelled = cancelled,
                 !.attempts = attempts,
                 !.resp = Track(lastOp.resp, op, state, state', msgs,
                                cancelled),
                 !.turn = Scenario(lastOp.turn, op, cancelled)]

\* the machine after a transition_to that returned r
After(r) ==
    [state |-> r.state, previous_state |-> r.previous_state,
     metrics |-> r.metrics]

SetMachine(r) ==
    /\ state' = r.state
    /\ previous_state' = r.previous_state
    /\ metrics' = r.metrics

\* VoiceSession._send_to_client: websocket.send_json either takes the
\* message or raises, and a raise marks the session inactive
SendOutcomes(did_send) ==
    IF did_send THEN {is_active, FALSE} ELSE {is_active}

\* history kept for each streaming call: the state has been outside
\* AssistantSpeaking at some moment after the call's first chunk went out
NoteLeft(f, st) ==
    [t \in ResponseTasks |->
        IF f[t].pc = "await_chunk" /\ ~f[t].first_chunk
           /\ st # ASSISTANT_SPEAKING
        THEN [f[t] EXCEPT !.left = TRUE]
        ELSE f[t]]

sessionFrame == UNCHANGED <<locked, waiters, state_callbacks,
                            transition_callbacks, mc, last, managerOnly>>
\* history kept for each streaming call: a barge_in message has gone to the
\* client while the call's stream id sid was the active one
NoteBarged(f, sid) ==
    [t \in ResponseTasks |->
        IF f[t].pc # "none" /\ f[t].stream_id = sid
        THEN [f[t] EXCEPT !.barged = TRUE]
        ELSE f[t]]

\* a plausible slip: raw audio taken for the start of speech, so that a
\* chunk arriving in Idle moves the session to UserSpeaking
HandleAudioChunk_mut ==
    /\ LET r == IF state = IDLE
                THEN transition_to(Machine, USER_SPEAKING)
                ELSE [ok |-> FALSE, state |-> state,
                      previous_state |-> previous_state,
                      metrics |-> metrics, fired |-> <<>>, idx |-> 0,
                      suspended |-> FALSE]
       IN  SetMachine(r)
    /\ UNCHANGED <<tts_stream_id, current_utterance, next_stream,
                   is_active, stt, tts>>
    /\ sessionFrame
    /\ lastOp' = [OpRecord("audio_in", "client", "", NoStream, <<>>, <<>>,
                           0)
                  EXCEPT !.forwarded = TRUE, !.touched = TRUE]

\* VoiceSession.handle_audio_chunk (lines 82-93): last_activity is set to
\* the time of the call (touched; the wall-clock value itself is left
\* out) and the chunk is handed to the STT provider's send_audio under the
\* session's id (forwarded)
HandleAudioChunk ==
    /\ UNCHANGED <<state, previous_state, metrics, tts_stream_id,
                   current_utterance, next_stream, is_active, stt, tts>>
    /\ sessionFrame
    /\ lastOp' = [OpRecord("audio_in", "client", "", NoStream, <<>>, <<>>,
                           0)
                  EXCEPT !.forwarded = TRUE, !.touched = TRUE]

(*------------------------- _process_stt_event ---------------------------*)
\* handle_stt_events awaits the next event of the provider's stream
\* a plausible slip: each event handled in a task of its own, so the next
\* event is taken while the previous one's handler is still suspended
SttReady_mut == stt.pc \in {"wait_event", "final_sent"}

SttReady == stt.pc = "wait_event"
SttNext == stt

\* VoiceStateMachine.handle_barge_in with the lock free
handle_barge_in(m, sid) ==
    IF m.state # ASSISTANT_SPEAKING
    THEN [called |-> FALSE, ret |-> FALSE,
          r |-> [ok |-> FALSE, state |-> m.state,
                 previous_state |-> m.previous_state,
                 metrics |-> m.metrics, fired |-> <<>>, idx |-> 0,
                 suspended |-> FALSE],
          md |-> BargeInMeta(sid)]
    ELSE LET r == transition_to(m, USER_SPEAKING)
         IN  [called |-> TRUE, ret |-> r.ok, r |-> r,
              md |-> BargeInMeta(sid)]

\* STTEvent.SPEECH_STARTED (lines 110-123)
ProcessSpeechStarted ==
    /\ SttReady
    /\ stt' = SttNext
    /\ sessionFrame
    /\ IF state = ASSISTANT_SPEAKING
       THEN LET b == handle_barge_in(Machine, tts_stream_id)
                msg == Msg("barge_in", b.r.state, NoStream, "")
            IN  /\ SetMachine(b.r)
                /\ is_active' \in SendOutcomes(TRUE)
                /\ tts' = NoteBarged(NoteLeft(tts, b.r.state),
                                     tts_stream_id)
                /\ UNCHANGED <<tts_stream_id, current_utterance,
                               next_stream>>
                /\ lastOp' = [OpRecord("speech_started", "stt", "",
                                       tts_stream_id, <<msg>>, <<>>,
                                       IF b.called THEN 1 ELSE 0)
                              EXCEPT !.barged = TRUE, !.md = b.md]
       ELSE IF state = IDLE
       THEN LET r == transition_to(Machine, USER_SPEAKING)
            IN  /\ SetMachine(r)
                /\ tts' = NoteLeft(tts, r.state)
                /\ UNCHANGED <<tts_stream_id, current_utterance,
                               next_stream, is_active>>
                /\ lastOp' = OpRecord("speech_started", "stt", "",
                                      tts_stream_id, <<>>, <<>>, 1)
       ELSE /\ UNCHANGED <<state, previous_state, metrics, tts_stream_id,
                           current_utterance, next_stream, is_active, tts>>
            /\ lastOp' = OpRecord("speech_started", "stt", "",
                                  tts_stream_id, <<>>, <<>>, 0)

\* STTEvent.PARTIAL_TRANSCRIPT (lines 125-131)
ProcessPartialTranscript(t) ==
    /\ SttReady
    /\ stt' = SttNext
    /\ sessionFrame
    /\ LET msg == Msg("partial_transcript", state, NoStream, t)
       IN  /\ is_active' \in SendOutcomes(TRUE)
           /\ UNCHANGED <<state, previous_state, metrics, tts_stream_id,
                          current_utterance, next_stream, tts>>
           /\ lastOp' = OpRecord("partial_transcript", "stt", t, NoStream,
                                 <<msg>>, <<>>, 0)

\* a plausible slip: a final transcript also taken when SpeechStarted was
\* missed and the state is still Idle
accepts_final_transcript_mut(cur) == cur \in {USER_SPEAKING, IDLE}

\* line 144: a final transcript is accepted only in USER_SPEAKING
accepts_final_transcript(cur) == cur = USER_SPEAKING

\* STTEvent.FINAL_TRANSCRIPT, up to the send of final_transcript
\* (lines 133-157)
ProcessFinalTranscript(t) ==
    /\ SttReady
    /\ metrics.user_turns < MaxTurns
    /\ UNCHANGED <<state, previous_state, metrics, tts_stream_id,
                   next_stream, tts>>
    /\ sessionFrame
    /\ IF ~accepts_final_transcript(state)
       THEN /\ stt' = SttNext
            /\ UNCHANGED <<current_utterance, is_active>>
            /\ lastOp' = OpRecord("final_transcript", "stt", t, NoStream,
                                  <<>>, <<>>, 0)
       ELSE LET msg == Msg("final_transcript", state, NoStream, t)
            IN  /\ stt' = [SttNext EXCEPT !.pc = "final_sent",
                                          !.transcript = t]
                /\ current_utterance' = t
                /\ is_active' \in SendOutcomes(TRUE)
                /\ lastOp' = OpRecord("final_transcript", "stt", t,
                                      NoStream, <<msg>>, <<>>, 0)

\* STTEvent.FINAL_TRANSCRIPT, after the send: transition to PROCESSING
\* (lines 159-163)
ProcessFinalTransition ==
    /\ stt.pc = "final_sent"
    /\ LET r == transition_to(Machine, PROCESSING)
       IN  /\ SetMachine(r)
           /\ tts' = NoteLeft(tts, r.state)
    /\ stt' = [stt EXCEPT !.pc = "wait_event", !.transcript = ""]
    /\ UNCHANGED <<tts_stream_id, current_utterance, next_stream,
                   is_active>>
    /\ sessionFrame
    /\ lastOp' = [OpRecord("final_transition", "stt", stt.transcript,
                           NoStream, <<>>, <<>>, 1)
                  EXCEPT !.md = UtteranceMeta(stt.transcript)]

\* STTEvent.SPEECH_ENDED (lines 165-167)
ProcessSpeechEnded ==
    /\ SttReady
    /\ stt' = SttNext
    /\ UNCHANGED <<state, previous_state, metrics, tts_stream_id,
                   current_utterance, next_stream, is_active, tts>>
    /\ sessionFrame
    /\ lastOp' = OpRecord("speech_ended", "stt", "", NoStream, <<>>, <<>>, 0)

\* STTEvent.ERROR (lines 169-174)
\* a plausible slip: the Error-kind event also routes the session to ERROR
ProcessSttError_mut ==
    /\ SttReady
    /\ stt' = SttNext
    /\ LET r == transition_to(Machine, ERROR)
       IN  /\ SetMachine(r)
           /\ tts' = NoteLeft(tts, r.state)
    /\ UNCHANGED <<tts_stream_id, current_utterance, next_stream>>
    /\ sessionFrame
    /\ LET msg == Msg("stt_error", state, NoStream, "")
       IN  /\ is_active' \in SendOutcomes(TRUE)
           /\ lastOp' = OpRecord("stt_error", "stt", "", NoStream,
                                 <<msg>>, <<>>, 1)

ProcessSttError ==
    /\ SttReady
    /\ stt' = SttNext
    /\ UNCHANGED <<state, previous_state, metrics, tts_stream_id,
                   current_utterance, next_stream, tts>>
    /\ sessionFrame
    /\ LET msg == Msg("stt_error", state, NoStream, "")
       IN  /\ is_active' \in SendOutcomes(TRUE)
           /\ lastOp' = OpRecord("stt_error", "stt", "", NoStream,
                                 <<msg>>, <<>>, 0)

\* handle_stt_events: the provider's event stream raises (lines 102-104)
SttStreamRaises ==
    /\ SttReady
    /\ stt' = [SttNext EXCEPT !.pc = "done"]
    /\ LET r == transition_to(Machine, ERROR)
       IN  /\ SetMachine(r)
           /\ tts' = NoteLeft(tts, r.state)
    /\ UNCHANGED <<tts_stream_id, current_utterance, next_stream,
                   is_active>>
    /\ sessionFrame
    /\ lastOp' = OpRecord("stt_raises", "stt", "", NoStream, <<>>, <<>>, 1)

(*------------------------ synthesize_and_stream -------------------------*)
\* synthesize_and_stream and finish_speaking are called from outside the
\* session, at any moment and in any state; calls may overlap (each call is
\* a task).
\* stream_id = uuid4(); set_tts_stream_id(stream_id) (lines 183-194), up to
\* the first await of the provider's stream
Synthesize(t) ==
    /\ tts[t].pc = "none"
    /\ \A u \in ResponseTasks :
          TaskOrder[u] < TaskOrder[t] => tts[u].pc # "none"
    /\ next_stream <= MaxCalls
    /\ tts_stream_id' = next_stream
    /\ next_stream' = next_stream + 1
    /\ tts' = NoteLeft([tts EXCEPT ![t] =
                          [pc |-> "await_chunk", stream_id |-> next_stream,
                           first_chunk |-> TRUE, left |-> FALSE,
                           barged |-> FALSE]],
                       state)
    /\ UNCHANGED <<state, previous_state, metrics, current_utterance,
                   is_active, stt>>
    /\ sessionFrame
    /\ lastOp' = OpRecord("synthesize", t, "", next_stream, <<>>, <<>>, 0)

\* a plausible slip: the state looked at only from the second chunk onward
ShouldStop_mut(cur, first_chunk) ==
    /\ ~first_chunk
    /\ cur # ASSISTANT_SPEAKING

\* lines 202-205: the loop stops unless the assistant is speaking, or this
\* is the first chunk and the state is still PROCESSING
ShouldStop(cur, first_chunk) ==
    /\ cur # ASSISTANT_SPEAKING
    /\ ~(first_chunk /\ cur = PROCESSING)

\* the provider yields a chunk (one pass of the loop body, lines 200-223);
\* cancel_stream may itself raise, which lands in the except clause
TtsChunk(t) ==
    /\ tts[t].pc = "await_chunk"
    /\ UNCHANGED <<tts_stream_id, current_utterance, next_stream, stt>>
    /\ sessionFrame
    /\ IF ShouldStop(state, tts[t].first_chunk)
       THEN /\ UNCHANGED <<state, previous_state, metrics>>
            /\ \E raises \in BOOLEAN :
                 LET msg == Msg("tts_error", state, NoStream, "")
                 IN  /\ tts' = NoteLeft([tts EXCEPT ![t] =
                                 IF raises
                                 THEN [@ EXCEPT !.pc = "error_sent"]
                                 ELSE IdleTts], state)
                     /\ is_active' \in SendOutcomes(raises)
                     /\ lastOp' = [OpRecord("tts_chunk", t, "",
                                       tts[t].stream_id,
                                       IF raises THEN <<msg>> ELSE <<>>,
                                       <<tts[t].stream_id>>, 0)
                                   EXCEPT !.first = tts[t].first_chunk,
                                          !.left = tts[t].left,
                                          !.barged = tts[t].barged]
       ELSE LET r == IF tts[t].first_chunk
                     THEN transition_to(Machine, ASSISTANT_SPEAKING)
                     ELSE [ok |-> TRUE, state |-> state,
                           previous_state |-> previous_state,
                           metrics |-> metrics, fired |-> <<>>, idx |-> 0,
                           suspended |-> FALSE]
                msg == Msg("audio_chunk", r.state, tts[t].stream_id, "")
            IN  /\ SetMachine(r)
                /\ is_active' \in SendOutcomes(TRUE)
                /\ tts' = NoteLeft([tts EXCEPT ![t] =
                                      [@ EXCEPT !.first_chunk = FALSE]],
                                   r.state)
                /\ lastOp' = [OpRecord("tts_chunk", t, "",
                                  tts[t].stream_id, <<msg>>, <<>>,
                                  IF tts[t].first_chunk THEN 1 ELSE 0)
                              EXCEPT !.first = tts[t].first_chunk,
                                     !.left = tts[t].left,
                                     !.barged = tts[t].barged,
                                     !.md = IF tts[t].first_chunk
                                            THEN StreamMeta(tts[t].stream_id)
                                            ELSE NoMeta]

\* a plausible slip: the end of one segment taken for the end of the
\* response (transition to IDLE, active stream id cleared)
TtsExhausted_mut(t) ==
    /\ tts[t].pc = "await_chunk"
    /\ LET r == transition_to(Machine, IDLE)
       IN  /\ SetMachine(r)
           /\ tts_stream_id' = NoStream
           /\ tts' = NoteLeft([tts EXCEPT ![t] = IdleTts], r.state)
    /\ UNCHANGED <<current_utterance, next_stream, is_active, stt>>
    /\ sessionFrame
    /\ lastOp' = [OpRecord("tts_exhausted", t, "", tts[t].stream_id,
                           <<>>, <<>>, 0)
                  EXCEPT !.first = tts[t].first_chunk]

\* the provider's stream is exhausted: the call returns (lines 225-235)
TtsExhausted(t) ==
    /\ tts[t].pc = "await_chunk"
    /\ tts' = [tts EXCEPT ![t] = IdleTts]
    /\ UNCHANGED <<state, previous_state, metrics, tts_stream_id,
                   current_utterance, next_stream, is_active,
                   stt>>
    /\ sessionFrame
    /\ lastOp' = [OpRecord("tts_exhausted", t, "", tts[t].stream_id,
                           <<>>, <<>>, 0)
                  EXCEPT !.first = tts[t].first_chunk]

\* the provider raises while the loop awaits the next chunk: the except
\* clause sends tts_error (lines 237-242)
TtsRaises(t) ==
    /\ tts[t].pc = "await_chunk"
    /\ tts' = [tts EXCEPT ![t] = [@ EXCEPT !.pc = "error_sent"]]
    /\ UNCHANGED <<state, previous_state, metrics, tts_stream_id,
                   current_utterance, next_stream, stt>>
    /\ sessionFrame
    /\ LET msg == Msg("tts_error", state, NoStream, "")
       IN  /\ is_active' \in SendOutcomes(TRUE)
           /\ lastOp' = OpRecord("tts_raises", t, "", tts[t].stream_id,
                                 <<msg>>, <<>>, 0)

\* after the send of tts_error: transition_to(ERROR), twice (lines 243-245)
TtsErrorTransitions(t) ==
    /\ tts[t].pc = "error_sent"
    /\ LET r1 == transition_to(Machine, ERROR)
           r2 == transition_to(After(r1), ERROR)
       IN  /\ SetMachine(r2)
           /\ tts' = NoteLeft([tts EXCEPT ![t] = IdleTts], r2.state)
    /\ UNCHANGED <<tts_stream_id, current_utterance, next_stream,
                   is_active, stt>>
    /\ sessionFrame
    /\ lastOp' = OpRecord("tts_error_transitions", t, "", tts[t].stream_id,
                          <<>>, <<>>, 2)

\* a plausible slip: the stream id is cleared whatever the state
finish_speaking_mut(m, sid) ==
    IF m.state = ASSISTANT_SPEAKING
    THEN [called |-> TRUE, r |-> transition_to(m, IDLE),
          tts_stream_id |-> NoStream]
    ELSE [called |-> FALSE,
          r |-> [ok |-> FALSE, state |-> m.state,
                 previous_state |-> m.previous_state,
                 metrics |-> m.metrics, fired |-> <<>>, idx |-> 0,
                 suspended |-> FALSE],
          tts_stream_id |-> NoStream]

\* VoiceSession.finish_speaking (lines 247-259)
finish_speaking(m, sid) ==
    IF m.state = ASSISTANT_SPEAKING
    THEN [called |-> TRUE, r |-> transition_to(m, IDLE),
          tts_stream_id |-> NoStream]
    ELSE [called |-> FALSE,
          r |-> [ok |-> FALSE, state |-> m.state,
                 previous_state |-> m.previous_state,
                 metrics |-> m.metrics, fired |-> <<>>, idx |-> 0,
                 suspended |-> FALSE],
          tts_stream_id |-> sid]

FinishSpeaking ==
    /\ UNCHANGED <<current_utterance, next_stream, is_active,
                   stt>>
    /\ sessionFrame
    /\ LET f == finish_speaking(Machine, tts_stream_id)
       IN  /\ SetMachine(f.r)
           /\ tts_stream_id' = f.tts_stream_id
           /\ tts' = NoteLeft(tts, f.r.state)
           /\ lastOp' = OpRecord("finish_speaking", "caller", "",
                                 tts_stream_id,
                                 <<>>, <<>>, IF f.called THEN 1 ELSE 0)

\* the caller's recovery: transition_to(IDLE) once the session is in ERROR
Recover ==
    /\ state = ERROR
    /\ LET r == transition_to(Machine, IDLE)
       IN  /\ SetMachine(r)
           /\ tts' = NoteLeft(tts, r.state)
    /\ UNCHANGED <<tts_stream_id, current_utterance, next_stream,
                   is_active, stt>>
    /\ sessionFrame
    /\ lastOp' = OpRecord("recover", "caller", "", NoStream, <<>>, <<>>, 1)

(***************************************************************************)
(* SpecManager: one VoiceSessionManager.                                   *)
(*                                                                         *)
(* Its operations are coroutines called from the websocket handlers, the   *)
(* periodic cleanup loop and the shutdown hook; calls overlap, and a call  *)
(* gives way to the others at each await that suspends: start_stream,      *)
(* the await of the cancelled STT task, stop_stream.  A session is known   *)
(* to the manager by what close() and create_session touch: its active     *)
(* flag, its STT stream and its STT task.  Whether a session's last        *)
(* activity is older than the threshold is an input of each sweep.         *)
(***************************************************************************)
\* uuid4 session ids are fresh: the n-th session made has id n
MaxSessions == 2
\* steps of the sessions' operations that change a session, all sessions
\* together
MaxSessionSteps == 3
SessionIds == 1..MaxSessions
NoId == 0

\* the calls of manager operations that can overlap; they are
\* interchangeable, and a new call takes the first free one
ManagerTasks == {"m1", "m2"}

\* what a VoiceSession holds besides its active flag, its STT stream and
\* its STT task: its state machine (state, previous_state, active stream
\* id), its metrics and its current utterance, and where its own tasks
\* stand: stt is the position of handle_stt_events ("wait_event",
\* "final_sent", "done"), tts that of the synthesize_and_stream call in
\* progress ("none", "await_chunk", "error_sent"), calls the number of
\* synthesize_and_stream calls made (the n-th call's uuid4 stream id is
\* n), steps the number of steps of its operations that changed it
\* (history)
NewVoice ==
    [state |-> IDLE, previous_state |-> IDLE, tts_stream_id |-> NoStream,
     current_utterance |-> "", metrics |-> NoMetrics,
     stt |-> "wait_event", tts |-> "none", first_chunk |-> TRUE,
     stream_id |-> NoStream, calls |-> 0, steps |-> 0]

\* made: VoiceSession.__init__ has run; closed: a close_session of this
\* session has returned (history)
NoSession ==
    [made |-> FALSE, active |-> FALSE, stream |-> "none", task |-> "none",
     closed |-> FALSE, voice |-> NewVoice]

\* VoiceSession.__init__ (lines 46-47): _stt_task = None, _is_active = True
NewSession == [NoSession EXCEPT !.made = TRUE, !.active = TRUE]

IdleManagerTask ==
    [pc |-> "idle", id |-> NoId, outer |-> "none", todo |-> <<>>,
     selected |-> {}]

ManagerFree(m) ==
    /\ mt[m].pc = "idle"
    /\ m = "m2" => mt["m1"].pc # "idle"

\* history: what the last step did.  op: the operation that ended with the
\* step ("create_session", "close_session", "cleanup_inactive_sessions",
\* "close_all_sessions") or "await" when the step ended in a suspension;
\* outcome: "returned" or the exception raised; found: close_session found
\* the id registered; selected: the ids the sweep or the shutdown took;
\* part_of: the operation the caller called; begins: the step is the
\* first of a sweep, and aged: the sessions that sweep finds older than its
\* threshold
NoManagerOp ==
    [op |-> "none", id |-> NoId, outcome |-> "none",
     found |-> FALSE, selected |-> {}, part_of |-> "none",
     begins |-> FALSE, aged |-> {}]

ManagerOp(op, m, id, outcome, found, selected, part_of) ==
    [NoManagerOp EXCEPT !.op = op, !.id = id, !.outcome = outcome,
                        !.found = found, !.selected = selected,
                        !.part_of = part_of]

managerFrame ==
    UNCHANGED <<state, previous_state, tts_stream_id, locked, waiters,
                state_callbacks, transition_callbacks, mc,
                current_utterance, metrics, is_active, stt, tts,
                next_stream, last, lastOp>>

\* dict order is insertion order, and sessions are registered in id order
RECURSIVE InOrder(_)
InOrder(S) ==
    IF S = {} THEN <<>>
    ELSE LET x == CHOOSE y \in S : \A z \in S : y <= z
         IN  <<x>> \o InOrder(S \ {x})

\* close_session on an id that _sessions.get does not find returns at once
\* (lines 388-389): the loop goes on to the next id without suspending
RECURSIVE SkipUnregistered(_, _)
SkipUnregistered(todo, reg) ==
    IF todo = <<>> THEN <<>>
    ELSE IF Head(todo) \in reg THEN todo
    ELSE SkipUnregistered(Tail(todo), reg)

\* VoiceSession.close up to its first await (lines 290-299): the session
\* is marked inactive, and a task that is not done is cancelled
close_begin(s) ==
    [s EXCEPT !.active = FALSE,
              !.task = IF @ = "running" THEN "cancelled" ELSE @]

\* where close() suspends first: in "await self._stt_task" if it cancelled
\* the task, else in "await stop_stream"
close_pc(s) == IF s.task = "running" THEN "cancelling" ELSE "stopping"

\* create_session up to "await stt_provider.start_stream" (lines 356-370):
\* the session is registered (line 367) before the await
CreateSession(m) ==
    /\ ManagerFree(m)
    /\ next_id <= MaxSessions
    /\ sess' = [sess EXCEPT ![next_id] = NewSession]
    /\ registry' = registry \cup {next_id}
    /\ next_id' = next_id + 1
    /\ mt' = [mt EXCEPT ![m] = [IdleManagerTask EXCEPT !.pc = "starting",
                                                      !.id = next_id]]
    /\ lastMgr' = ManagerOp("await", m, next_id, "none", FALSE, {},
                            "create_session")
    /\ managerFrame

\* start_stream returns, the STT-event task is spawned and the session is
\* returned (lines 373-380); or start_stream raises, and create_session
\* with it
CreateSessionResumes(m) ==
    /\ mt[m].pc = "starting"
    /\ LET id == mt[m].id
       IN  \E raises \in BOOLEAN :
              IF raises
              THEN /\ UNCHANGED sess
                   /\ lastMgr' = ManagerOp("create_session", m, id,
                                           "provider_error", FALSE, {},
                                           "create_session")
              ELSE /\ sess' = [sess EXCEPT ![id] =
                                 [@ EXCEPT !.stream = "started",
                                           !.task = "running"]]
                   /\ lastMgr' = ManagerOp("create_session", m, id,
                                           "returned", FALSE, {},
                                           "create_session")
    /\ mt' = [mt EXCEPT ![m] = IdleManagerTask]
    /\ UNCHANGED <<registry, next_id>>
    /\ managerFrame

\* a loop over ids (cleanup_inactive_sessions lines 412-413,
\* close_all_sessions lines 441-442) from the call of close_session for its
\* next id up to the first suspension, or to the end of the loop.  ss and
\* reg are the sessions and the registry as the loop finds them, done_id
\* the id whose close_session has just returned.
LoopOn(m, outer, ids, selected, ss, reg, done_id, begins, aged) ==
    LET todo == SkipUnregistered(ids, reg)
    IN  IF todo = <<>>
        THEN /\ sess' = ss
             /\ mt' = [mt EXCEPT ![m] = IdleManagerTask]
             /\ lastMgr' = [ManagerOp(outer, m, done_id, "returned",
                                      FALSE, selected, outer)
                            EXCEPT !.begins = begins, !.aged = aged]
        ELSE LET id == Head(todo)
             IN  /\ sess' = [ss EXCEPT ![id] = close_begin(@)]
                 /\ mt' = [mt EXCEPT ![m] =
                             [pc |-> close_pc(ss[id]), id |-> id,
                              outer |-> outer, todo |-> Tail(todo),
                              selected |-> selected]]
                 /\ lastMgr' = [ManagerOp("await", m, id, "none", TRUE,
                                          selected, outer)
                                EXCEPT !.begins = begins, !.aged = aged]

\* get_session (lines 382-384): the session registered under the id, or
\* None
get_session(id) == IF id \in registry THEN id ELSE NoId

\* a plausible slip: the registry cleared instead of one key deleted
unregister_mut(reg, id) == {}

\* del self._sessions[session_id] (line 391), the key being present
unregister(reg, id) == reg \ {id}

\* close_session(id) up to the first suspension inside session.close()
\* (lines 386-389, 288-299)
CloseSession(m, id) ==
    /\ ManagerFree(m)
    /\ IF id \notin registry
       THEN /\ UNCHANGED <<sess, mt>>
            /\ lastMgr' = ManagerOp("close_session", m, id, "returned",
                                    FALSE, {}, "close_session")
       ELSE /\ sess' = [sess EXCEPT ![id] = close_begin(@)]
            /\ mt' = [mt EXCEPT ![m] =
                        [IdleManagerTask EXCEPT !.pc = close_pc(sess[id]),
                                                !.id = id]]
            /\ lastMgr' = ManagerOp("await", m, id, "none", TRUE, {},
                                    "close_session")
    /\ UNCHANGED <<registry, next_id>>
    /\ managerFrame

\* the cancelled STT task has ended; close() goes on to
\* "await stop_stream" (lines 300-305)
CloseAwaitsStop(m) ==
    /\ mt[m].pc = "cancelling"
    /\ mt' = [mt EXCEPT ![m] = [@ EXCEPT !.pc = "stopping"]]
    /\ lastMgr' = ManagerOp("await", m, mt[m].id, "none", TRUE,
                            mt[m].selected,
                            IF mt[m].outer = "none" THEN "close_session"
                            ELSE mt[m].outer)
    /\ UNCHANGED <<registry, sess, next_id>>
    /\ managerFrame

\* the name of the operation the caller sees end
Ending(m) == IF mt[m].outer = "none" THEN "close_session" ELSE mt[m].outer

\* stop_stream returns (or raises); close() returns; "del
\* self._sessions[session_id]" (line 391) removes the id or raises KeyError;
\* a loop goes on with its next id
CloseSessionResumes(m) ==
    /\ mt[m].pc = "stopping"
    /\ LET id == mt[m].id
       IN  \E raises \in BOOLEAN :
              IF raises
              THEN /\ UNCHANGED <<sess, registry>>
                   /\ mt' = [mt EXCEPT ![m] = IdleManagerTask]
                   /\ lastMgr' = ManagerOp(Ending(m), m, id,
                                           "provider_error", TRUE,
                                           mt[m].selected, Ending(m))
              ELSE LET stopped == [sess EXCEPT ![id] =
                                     [@ EXCEPT !.stream =
                                         IF @ = "started" THEN "stopped"
                                         ELSE @]]
                   IN  IF id \notin registry
                       THEN /\ sess' = stopped
                            /\ UNCHANGED registry
                            /\ mt' = [mt EXCEPT ![m] = IdleManagerTask]
                            /\ lastMgr' = ManagerOp(Ending(m), m, id,
                                              "KeyError", TRUE,
                                              mt[m].selected, Ending(m))
                       ELSE LET ss == [stopped EXCEPT
                                           ![id] = [@ EXCEPT
                                                      !.closed = TRUE]]
                            IN  /\ registry' = unregister(registry, id)
                                /\ IF mt[m].outer = "none"
                                   THEN /\ sess' = ss
                                        /\ mt' = [mt EXCEPT ![m] =
                                                    IdleManagerTask]
                                        /\ lastMgr' =
                                             ManagerOp("close_session", m,
                                                 id, "returned", TRUE, {},
                                                 "close_session")
                                   ELSE LoopOn(m, mt[m].outer, mt[m].todo,
                                               mt[m].selected, ss,
                                               unregister(registry, id),
                                               id, FALSE, {})
    /\ UNCHANGED next_id
    /\ managerFrame

\* lines 407-410; aged: the sessions with
\* (now - last_activity).total_seconds() > max_inactive_seconds
to_remove(aged) == {id \in registry : ~sess[id].active \/ id \in aged}

\* cleanup_inactive_sessions (lines 402-416): the sessions to remove are
\* chosen without suspending, then closed one after the other
CleanupInactiveSessions(m) ==
    /\ ManagerFree(m)
    /\ \E aged \in SUBSET registry :
          LoopOn(m, "cleanup_inactive_sessions", InOrder(to_remove(aged)),
                 to_remove(aged), sess, registry, NoId, TRUE, aged)
    /\ UNCHANGED <<registry, next_id>>
    /\ managerFrame

\* close_all_sessions (lines 438-443): the ids are copied, then closed one
\* after the other
CloseAllSessions(m) ==
    /\ ManagerFree(m)
    /\ LoopOn(m, "close_all_sessions", InOrder(registry), registry, sess,
              registry, NoId, FALSE, {})
    /\ UNCHANGED <<registry, next_id>>
    /\ managerFrame

\* the session's own life, as far as the manager sees it
\* _send_to_client fails (line 274)
SessionSendFails(id) ==
    /\ sess[id].made /\ sess[id].active
    /\ sess' = [sess EXCEPT ![id] = [@ EXCEPT !.active = FALSE]]
    /\ lastMgr' = NoManagerOp
    /\ UNCHANGED <<registry, mt, next_id>>
    /\ managerFrame

(***************************************************************************)
(* SpecSessions: the sessions of one manager, each living its own life.    *)
(*                                                                         *)
(* Every VoiceSession builds its own VoiceStateMachine, metrics dict and   *)
(* utterance in __init__ (lines 40-58) and registers its own three metric  *)
(* callbacks; the operations of a session read and write nothing but       *)
(* self.  An operation of session a is therefore a step on sess[a], made   *)
(* with the same code as in Spec: the STT-event task runs once             *)
(* create_session has spawned it and until close() cancels it,             *)
(* synthesize_and_stream and finish_speaking are called by whoever holds   *)
(* the session (one response call at a time here).                         *)
(***************************************************************************)
\* the state machine of a session, as transition_to reads it
MachineOf(c) ==
    [state |-> c.state, previous_state |-> c.previous_state,
     metrics |-> c.metrics]

\* the session after a transition_to that returned r
WithMachine(c, r) ==
    [c EXCEPT !.state = r.state, !.previous_state = r.previous_state,
              !.metrics = r.metrics]

\* a plausible slip: metrics a class attribute of VoiceSession, one dict
\* that every session counts in
store_session_mut(ss, a, s) ==
    [b \in DOMAIN ss |->
        IF b = a THEN s
        ELSE [ss[b] EXCEPT !.voice.metrics = s.voice.metrics]]

\* the attributes an operation assigns are those of self (lines 40-58:
\* each is made in __init__, none is shared)
store_session(ss, a, s) == [ss EXCEPT ![a] = s]

\* the changes the sessions' operations have made, all sessions together
RECURSIVE StepsMade(_)
StepsMade(ids) ==
    IF ids = {} THEN 0
    ELSE LET a == CHOOSE x \in ids : TRUE
         IN  sess[a].voice.steps + StepsMade(ids \ {a})

\* one step of an operation of session a, a registered session: c is what
\* it leaves in the session, act its active flag, task its STT task.  The
\* steps that change the session are counted.
SessionStep(a, op, c, act, task) ==
    LET s == [sess[a] EXCEPT !.voice = c, !.active = act, !.task = task]
    IN  /\ a \in registry
        /\ s # sess[a] => StepsMade(SessionIds) < MaxSessionSteps
        /\ sess' = store_session(sess, a,
                      IF s = sess[a] THEN s
                      ELSE [s EXCEPT !.voice.steps = @ + 1])
        /\ lastMgr' = [NoManagerOp EXCEPT !.op = op, !.id = a,
                                          !.part_of = "session"]
        /\ UNCHANGED <<registry, mt, next_id>>
        /\ managerFrame

\* _send_to_client of session a (lines 261-274): send_json takes the
\* message or raises, and a raise marks this session inactive
SentBy(a) == {sess[a].active, FALSE}

\* handle_stt_events of session a awaits the next event
SttRunning(a) ==
    /\ sess[a].task = "running"
    /\ sess[a].voice.stt = "wait_event"

\* STTEvent.SPEECH_STARTED (lines 110-123)
SessionSpeechStarted(a) ==
    /\ SttRunning(a)
    /\ LET c == sess[a].voice
       IN  IF c.state = ASSISTANT_SPEAKING
           THEN LET b == handle_barge_in(MachineOf(c), c.tts_stream_id)
                IN  \E act \in SentBy(a) :
                       SessionStep(a, "speech_started", WithMachine(c, b.r),
                                   act, sess[a].task)
           ELSE IF c.state = IDLE
           THEN SessionStep(a, "speech_started",
                    WithMachine(c, transition_to(MachineOf(c),
                                                 USER_SPEAKING)),
                    sess[a].active, sess[a].task)
           ELSE SessionStep(a, "speech_started", c, sess[a].active,
                            sess[a].task)

\* STTEvent.PARTIAL_TRANSCRIPT (lines 125-131) and STTEvent.ERROR (lines
\* 169-174): a message to the client, nothing else
SessionSttMessage(a, op) ==
    /\ SttRunning(a)
    /\ \E act \in SentBy(a) :
          SessionStep(a, op, sess[a].voice, act, sess[a].task)

\* STTEvent.FINAL_TRANSCRIPT up to the send (lines 133-157)
SessionFinalTranscript(a, t) ==
    /\ SttRunning(a)
    /\ sess[a].voice.metrics.user_turns < MaxTurns
    /\ LET c == sess[a].voice
       IN  IF ~accepts_final_transcript(c.state)
           THEN SessionStep(a, "final_transcript", c, sess[a].active,
                            sess[a].task)
           ELSE \E act \in SentBy(a) :
                   SessionStep(a, "final_transcript",
                       [c EXCEPT !.current_utterance = t,
                                 !.stt = "final_sent"],
                       act, sess[a].task)

\* STTEvent.FINAL_TRANSCRIPT after the send (lines 159-163)
SessionFinalTransition(a) ==
    /\ sess[a].task = "running"
    /\ sess[a].voice.stt = "final_sent"
    /\ LET c == sess[a].voice
           r == transition_to(MachineOf(c), PROCESSING)
       IN  SessionStep(a, "final_transition",
               [WithMachine(c, r) EXCEPT !.stt = "wait_event"],
               sess[a].active, sess[a].task)

\* the provider's event stream raises (lines 102-104): transition to ERROR,
\* and the task is done
SessionSttStreamRaises(a) ==
    /\ SttRunning(a)
    /\ LET c == sess[a].voice
           r == transition_to(MachineOf(c), ERROR)
       IN  SessionStep(a, "stt_raises",
               [WithMachine(c, r) EXCEPT !.stt = "done"],
               sess[a].active, "done")

\* synthesize_and_stream up to the first await of the provider's stream
\* (lines 183-196)
SessionSynthesize(a) ==
    /\ sess[a].made
    /\ sess[a].voice.tts = "none"
    /\ sess[a].voice.calls < MaxCalls
    /\ LET c == sess[a].voice
           id == c.calls + 1
       IN  SessionStep(a, "synthesize",
               [c EXCEPT !.calls = id, !.tts_stream_id = id,
                         !.stream_id = id, !.tts = "await_chunk",
                         !.first_chunk = TRUE],
               sess[a].active, sess[a].task)

\* the call of session a is over
EndCall(c) ==
    [c EXCEPT !.tts = "none", !.stream_id = NoStream, !.first_chunk = TRUE]

\* the provider yields a chunk (lines 200-223)
SessionTtsChunk(a) ==
    /\ sess[a].voice.tts = "await_chunk"
    /\ LET c == sess[a].voice
       IN  IF ShouldStop(c.state, c.first_chunk)
           THEN \/ SessionStep(a, "tts_chunk", EndCall(c), sess[a].active,
                               sess[a].task)
                \/ \E act \in SentBy(a) :
                      SessionStep(a, "tts_chunk",
                                  [c EXCEPT !.tts = "error_sent"], act,
                                  sess[a].task)
           ELSE LET r == IF c.first_chunk
                         THEN transition_to(MachineOf(c),
                                            ASSISTANT_SPEAKING)
                         ELSE [ok |-> TRUE, state |-> c.state,
                               previous_state |-> c.previous_state,
                               metrics |-> c.metrics, fired |-> <<>>,
                               idx |-> 0, suspended |-> FALSE]
                IN  \E act \in SentBy(a) :
                       SessionStep(a, "tts_chunk",
                           [WithMachine(c, r) EXCEPT !.first_chunk = FALSE],
                           act, sess[a].task)

\* the provider's stream is exhausted (lines 225-235)
SessionTtsExhausted(a) ==
    /\ sess[a].voice.tts = "await_chunk"
    /\ SessionStep(a, "tts_exhausted", EndCall(sess[a].voice),
                   sess[a].active, sess[a].task)

\* the provider raises: tts_error is sent (lines 237-242)
SessionTtsRaises(a) ==
    /\ sess[a].voice.tts = "await_chunk"
    /\ \E act \in SentBy(a) :
          SessionStep(a, "tts_raises",
                      [sess[a].voice EXCEPT !.tts = "error_sent"], act,
                      sess[a].task)

\* transition_to(ERROR), twice (lines 243-245)
SessionTtsErrorTransitions(a) ==
    /\ sess[a].voice.tts = "error_sent"
    /\ LET c == sess[a].voice
           r1 == transition_to(MachineOf(c), ERROR)
           r2 == transition_to(After(r1), ERROR)
       IN  SessionStep(a, "tts_error_transitions",
                       EndCall(WithMachine(c, r2)), sess[a].active,
                       sess[a].task)

\* VoiceSession.finish_speaking (lines 247-259)
SessionFinishSpeaking(a) ==
    /\ sess[a].made
    /\ LET c == sess[a].voice
           f == finish_speaking(MachineOf(c), c.tts_stream_id)
       IN  SessionStep(a, "finish_speaking",
               [WithMachine(c, f.r) EXCEPT
                    !.tts_stream_id = f.tts_stream_id],
               sess[a].active, sess[a].task)

\* the caller's recovery: transition_to(IDLE) once the session is in ERROR
SessionRecover(a) ==
    /\ sess[a].voice.state = ERROR
    /\ LET c == sess[a].voice
       IN  SessionStep(a, "recover",
               WithMachine(c, transition_to(MachineOf(c), IDLE)),
               sess[a].active, sess[a].task)

(***************************************************************************)
(* The specifications                                                      *)
(***************************************************************************)
\* the machine and the session of Spec and SpecMachine
InitOneSession ==
    /\ state = IDLE
    /\ previous_state = IDLE
    /\ tts_stream_id = NoStream
    /\ locked = FALSE
    /\ waiters = <<>>
    /\ mc = [c \in Callers |-> IdleCaller]
    /\ current_utterance = ""
    /\ metrics = NoMetrics
    /\ is_active = TRUE
    /\ stt = IdleStt
    /\ tts = [t \in ResponseTasks |-> IdleTts]
    /\ next_stream = 1
    /\ last = NoCall
    /\ lastOp = NoOp

InitCommon ==
    /\ InitOneSession
    /\ registry = {}
    /\ sess = [id \in SessionIds |-> NoSession]
    /\ mt = [m \in ManagerTasks |-> IdleManagerTask]
    /\ next_id = 1
    /\ lastMgr = NoManagerOp

\* VoiceSession.__init__
Init ==
    /\ InitCommon
    /\ state_callbacks = SessionStateCallbacks
    /\ transition_callbacks = <<>>

Next ==
    \/ HandleAudioChunk
    \/ ProcessSpeechStarted
    \/ \E t \in Transcripts : ProcessPartialTranscript(t)
    \/ \E t \in Transcripts : ProcessFinalTranscript(t)
    \/ ProcessFinalTransition
    \/ ProcessSpeechEnded
    \/ ProcessSttError
    \/ SttStreamRaises
    \/ \E t \in ResponseTasks : Synthesize(t)
    \/ \E t \in ResponseTasks : TtsChunk(t)
    \/ \E t \in ResponseTasks : TtsExhausted(t)
    \/ \E t \in ResponseTasks : TtsRaises(t)
    \/ \E t \in ResponseTasks : TtsErrorTransitions(t)
    \/ FinishSpeaking
    \/ Recover

Spec == Init /\ [][Next]_vars

\* VoiceStateMachine.__init__ followed by on_state_enter / on_transition
\* registrations made before the machine is used
Registrations ==
    { [on_enter |-> [s \in ConversationState |-> <<>>],
       on_transition |-> <<>>],
      [on_enter |-> [s \in ConversationState |-> <<"raising", "sync">>],
       on_transition |-> <<"async", "sync">>],
      [on_enter |-> [s \in ConversationState |->
                        IF s = ASSISTANT_SPEAKING THEN <<"async_raising">>
                        ELSE <<>>],
       on_transition |-> <<"sync">>] }

InitMachine ==
    /\ InitCommon
    /\ \E reg \in Registrations :
          /\ state_callbacks = reg.on_enter
          /\ transition_callbacks = reg.on_transition

NextMachine ==
    \/ \E c \in Callers, to \in ConversationState : CallTransitionTo(c, to)
    \/ \E c \in Callers : CallHandleBargeIn(c)
    \/ \E c \in Callers : Wake(c)
    \/ \E c \in Callers : Resume(c)
    \/ \E id \in {NoStream, 1} : SetTtsStreamId(id)

SpecMachine == InitMachine /\ [][NextMachine]_vars

\* a machine whose on-enter callback for ERROR is an error handler that
\* recovers ("await machine.transition_to(IDLE)" in its body), besides an
\* asynchronous callback on every transition
ReentrantRegistration ==
    [on_enter |-> [s \in ConversationState |->
                     IF s = ERROR THEN <<"reentrant">> ELSE <<>>],
     on_transition |-> <<"async">>]

InitReentrant ==
    /\ InitCommon
    /\ state_callbacks = ReentrantRegistration.on_enter
    /\ transition_callbacks = ReentrantRegistration.on_transition

\* the event loop runs every task that is ready: a woken waiter takes the
\* lock, and an asynchronous callback's own suspension ends
SpecReentrant ==
    /\ InitReentrant
    /\ [][NextMachine]_vars
    /\ \A c \in Callers : WF_vars(Wake(c)) /\ WF_vars(Resume(c))

\* VoiceSessionManager.__init__ (lines 331-333)
InitManager == Init

NextManager ==
    \/ \E m \in ManagerTasks : CreateSession(m)
    \/ \E m \in ManagerTasks : CreateSessionResumes(m)
    \/ \E m \in ManagerTasks, id \in SessionIds : CloseSession(m, id)
    \/ \E m \in ManagerTasks : CloseAwaitsStop(m)
    \/ \E m \in ManagerTasks : CloseSessionResumes(m)
    \/ \E m \in ManagerTasks : CleanupInactiveSessions(m)
    \/ \E m \in ManagerTasks : CloseAllSessions(m)
    \/ \E id \in SessionIds : SessionSendFails(id)

SpecManager == InitManager /\ [][NextManager]_vars

\* create_session has been called and has returned for every session id,
\* one call after the other: every session is registered, its STT stream
\* started and its STT-event task running
InitSessions ==
    /\ InitOneSession
    /\ state_callbacks = SessionStateCallbacks
    /\ transition_callbacks = <<>>
    /\ registry = SessionIds
    /\ sess = [id \in SessionIds |->
                 [NewSession EXCEPT !.stream = "started",
                                    !.task = "running"]]
    /\ mt = [m \in ManagerTasks |-> IdleManagerTask]
    /\ next_id = MaxSessions + 1
    /\ lastMgr = ManagerOp("create_session", "m1", MaxSessions, "returned",
                           FALSE, {}, "create_session")

\* the sessions live, each running its own operations, and are closed one
\* by one
NextSessions ==
    \/ \E id \in SessionIds : CloseSession("m1", id)
    \/ CloseAwaitsStop("m1")
    \/ CloseSessionResumes("m1")
    \/ \E a \in SessionIds : SessionSpeechStarted(a)
    \/ \E a \in SessionIds : SessionSttMessage(a, "partial_transcript")
    \/ \E a \in SessionIds : SessionSttMessage(a, "stt_error")
    \/ \E a \in SessionIds : SessionFinalTranscript(a, "t1")
    \/ \E a \in SessionIds : SessionFinalTransition(a)
    \/ \E a \in SessionIds : SessionSttStreamRaises(a)
    \/ \E a \in SessionIds : SessionSynthesize(a)
    \/ \E a \in SessionIds : SessionTtsChunk(a)
    \/ \E a \in SessionIds : SessionTtsExhausted(a)
    \/ \E a \in SessionIds : SessionTtsRaises(a)
    \/ \E a \in SessionIds : SessionTtsErrorTransitions(a)
    \/ \E a \in SessionIds : SessionFinishSpeaking(a)
    \/ \E a \in SessionIds : SessionRecover(a)

SpecSessions == InitSessions /\ [][NextSessions]_vars

(***************************************************************************)
(* Properties of the state machine (SpecMachine)                           *)
(***************************************************************************)
\* the documented legal-transition table, written out pair by pair
LegalPairs ==
    { <<IDLE, USER_SPEAKING>>, <<IDLE, PROCESSING>>, <<IDLE, ERROR>>,
      <<USER_SPEAKING, PROCESSING>>, <<USER_SPEAKING, IDLE>>,
      <<USER_SPEAKING, ERROR>>,
      <<PROCESSING, ASSISTANT_SPEAKING>>, <<PROCESSING, IDLE>>,
      <<PROCESSING, ERROR>>,
      <<ASSISTANT_SPEAKING, IDLE>>, <<ASSISTANT_SPEAKING, USER_SPEAKING>>,
      <<ASSISTANT_SPEAKING, ERROR>>,
      <<ERROR, IDLE>> }

\* the last call that returned ran the validity check on a pair from # to
EvaluatedPair ==
    /\ last.op # "none"
    /\ last.evaluated
    /\ last.from # last.to

\* C1: a transition_to whose pair (from, to), from # to, is not in the
\* legal-transition table returns false, leaves state and previous_state as
\* they were, and fires no on-enter and no on-transition callback.
C1_IllegalRejected ==
    (EvaluatedPair /\ <<last.from, last.to>> \notin LegalPairs)
        => /\ last.ret = FALSE
           /\ last.state_after = last.from
           /\ last.prev_after = last.prev_before
           /\ last.fired = <<>>

\* C1 witness: a rejected transition_to(PROCESSING) made in ERROR, with
\* callbacks registered that an accepted transition would have run
C1_Witness ==
    /\ last.op = "transition_to"
    /\ last.evaluated
    /\ last.from = ERROR
    /\ last.to = PROCESSING
    /\ last.ret = FALSE
    /\ CallbackList(PROCESSING) # <<>>

InDispatch == {c \in Callers : mc[c].pc = "in_callback"}

\* C3: transitions are serialized.  At most one call is between its validity
\* check and the end of its callback dispatch, and while one is there no
\* other call's check runs: state and previous_state stay put, no other
\* call enters its dispatch, and the only call that can return having run
\* its check is the one in dispatch.
C3_Serialized ==
    [][ /\ Cardinality(InDispatch') <= 1
        /\ InDispatch # {} =>
             /\ locked
             /\ state' = state
             /\ previous_state' = previous_state
             /\ InDispatch' \subseteq InDispatch
             /\ (last' # last /\ last'.evaluated) => InDispatch' = {}
      ]_vars

\* C3 witness: one transition is suspended in an asynchronous callback
\* while two other calls wait for the lock
C3_Witness ==
    /\ Cardinality(InDispatch) = 1
    /\ Len(waiters) = 2

\* C4: handle_barge_in returns true if and only if the state is
\* AssistantSpeaking when it is called; when it returns true the state has
\* become UserSpeaking by a transition whose metadata is reason barge_in
\* with the active stream id; when it returns false, state and
\* previous_state are unchanged and no callback has fired.
C4_BargeInIffSpeaking ==
    last.op = "handle_barge_in"
        => /\ last.ret <=> last.checked = ASSISTANT_SPEAKING
           /\ last.ret =>
                /\ last.state_after = USER_SPEAKING
                /\ last.md.reason = "barge_in"
           /\ ~last.ret =>
                /\ last.state_after = last.from
                /\ last.prev_after = last.prev_before
                /\ last.fired = <<>>

\* C4, the other way to read "the current state": a handle_barge_in that
\* returned true although the state its transition started from was Idle
C4_TrueFromIdle ==
    /\ last.op = "handle_barge_in"
    /\ last.ret
    /\ last.checked = ASSISTANT_SPEAKING
    /\ last.from = IDLE
    /\ last.state_after = USER_SPEAKING

\* C34: under concurrent use of one state machine, every transition that
\* handle_barge_in performs starts from AssistantSpeaking: a handle_barge_in
\* that returned true made its transition (metadata reason barge_in) from
\* AssistantSpeaking, never from Idle, UserSpeaking, Processing or Error.
C34_BargeInOnlyFromSpeaking ==
    (last.op = "handle_barge_in" /\ last.evaluated /\ last.ret)
        => /\ last.md.reason = "barge_in"
           /\ last.from = ASSISTANT_SPEAKING

\* a handle_barge_in that read AssistantSpeaking before it waited for the
\* lock made its transition from UserSpeaking, where a call ahead of it in
\* the queue had just moved the machine: it ran the callbacks and returned
\* true
C34_BargeInFromUserSpeaking ==
    /\ last.op = "handle_barge_in"
    /\ last.evaluated
    /\ last.ret
    /\ last.md.reason = "barge_in"
    /\ last.checked = ASSISTANT_SPEAKING
    /\ last.from = USER_SPEAKING
    /\ last.state_after = USER_SPEAKING
    /\ last.prev_after = USER_SPEAKING
    /\ last.fired # <<>>

\* C39: every call of transition_to eventually returns, provided each
\* callback's own body terminates, also when an asynchronous callback
\* calls transition_to on the same machine during dispatch: a call that
\* has been made (directly or through handle_barge_in) is eventually over.
C39_EveryCallReturns ==
    \A c \in Callers : (mc[c].pc # "idle") ~> (mc[c].pc = "idle")

\* the machine is dead: the transition into ERROR holds the lock and waits
\* for it inside its own callback, at the head of the queue, and the two
\* other callers wait behind it
C39_LockHeldByItsOwnWaiter ==
    /\ locked
    /\ state = ERROR
    /\ Len(waiters) = 3
    /\ mc[Head(waiters)].pc = "reentering"
    /\ mc[Head(waiters)].to = ERROR
    /\ \A c \in Callers \ {Head(waiters)} : mc[c].pc = "waiting"
    /\ \A c \in Callers : ~ENABLED Wake(c) /\ ~ENABLED Resume(c)

(***************************************************************************)
(* Properties of the session (Spec).  Every action of Spec sets lastOp, so *)
(* in a step lastOp' names the operation the step performs, the unprimed   *)
(* variables are what the operation found and the primed ones what it left. *)
(***************************************************************************)
\* the messages of type ty among those the operation of r handed over
Sent(r, ty) == {i \in DOMAIN r.msgs : r.msgs[i].type = ty}

\* C5: a SpeechStarted event processed while the state is AssistantSpeaking
\* leaves the state UserSpeaking, raises barge_ins by exactly 1, and sends a
\* barge_in message to the client.
C5_BargeInOnSpeechStarted ==
    [][ (lastOp'.op = "speech_started" /\ state = ASSISTANT_SPEAKING)
            => /\ state' = USER_SPEAKING
               /\ metrics'.barge_ins = metrics.barge_ins + 1
               /\ Cardinality(Sent(lastOp', "barge_in")) = 1
      ]_vars

\* C5 witness: a SpeechStarted has just been processed in AssistantSpeaking,
\* for the second time in the session
C5_Witness ==
    /\ lastOp.op = "speech_started"
    /\ lastOp.pre_state = ASSISTANT_SPEAKING
    /\ Sent(lastOp, "barge_in") # {}
    /\ metrics.barge_ins = 2

\* C6: in one synthesize_and_stream call, once the state has been outside
\* AssistantSpeaking after the call's first chunk was delivered, the next
\* chunk stops the loop: it is not forwarded, and cancel_stream has been
\* called exactly once, with the call's stream id.
C6_StopsAtNextChunk ==
    (lastOp.op = "tts_chunk" /\ ~lastOp.first /\ lastOp.left)
        => /\ Sent(lastOp, "audio_chunk") = {}
           /\ lastOp.cancelled = <<lastOp.stream>>

\* C6, the case that breaks it: a call whose second chunk was forwarded
\* although the state had left AssistantSpeaking after its first chunk, and
\* cancel_stream was not called
C6_ForwardedAfterLeaving ==
    /\ lastOp.op = "tts_chunk"
    /\ ~lastOp.first
    /\ lastOp.left
    /\ Sent(lastOp, "audio_chunk") # {}
    /\ lastOp.cancelled = <<>>
    /\ state = ASSISTANT_SPEAKING

\* C7: after the barge_in message of a barge-in that interrupted stream S1,
\* no audio_chunk tagged S1 is sent to the client.
C7_NoChunkAfterBargeIn ==
    (lastOp.op = "tts_chunk" /\ lastOp.barged)
        => \A i \in Sent(lastOp, "audio_chunk") :
              lastOp.msgs[i].stream_id # lastOp.stream

\* C7, the case that breaks it: a later chunk of the interrupted stream is
\* forwarded, tagged with its own id, while a newer stream is the active one
C7_StaleChunkForwarded ==
    /\ lastOp.op = "tts_chunk"
    /\ lastOp.barged
    /\ ~lastOp.first
    /\ \E i \in Sent(lastOp, "audio_chunk") :
          lastOp.msgs[i].stream_id = lastOp.stream
    /\ tts_stream_id > lastOp.stream
    /\ metrics.user_turns = 2

\* C8: a FinalTranscript processed in a state other than UserSpeaking is
\* dropped: current_utterance, state, previous_state and the metrics are
\* unchanged, no transition is attempted (neither now nor as a later step
\* of the handling), and nothing is sent to the client.
C8_FinalDroppedOutsideUserSpeaking ==
    [][ (lastOp'.op = "final_transcript" /\ state # USER_SPEAKING)
            => /\ current_utterance' = current_utterance
               /\ lastOp'.attempts = 0
               /\ stt'.pc = "wait_event"
               /\ state' = state
               /\ previous_state' = previous_state
               /\ metrics' = metrics
               /\ lastOp'.msgs = <<>>
      ]_vars

\* C8 witness: a FinalTranscript was dropped in Processing while an earlier,
\* different utterance is stored
C8_Witness ==
    /\ lastOp.op = "final_transcript"
    /\ lastOp.pre_state = PROCESSING
    /\ state = PROCESSING
    /\ current_utterance # ""
    /\ lastOp.transcript # current_utterance
    /\ lastOp.msgs = <<>>

\* what the handling of an accepted FinalTranscript does before its send
\* suspends: the utterance is the event's transcript, and one
\* final_transcript message carrying it goes to the client
FinalAccepted ==
    (lastOp'.op = "final_transcript" /\ state = USER_SPEAKING)
        => /\ current_utterance' = lastOp'.transcript
           /\ lastOp'.transcript \in Transcripts
           /\ Len(lastOp'.msgs) = 1
           /\ lastOp'.msgs[1].type = "final_transcript"
           /\ lastOp'.msgs[1].transcript = lastOp'.transcript
           /\ stt'.pc = "final_sent"

\* C9 as stated: a FinalTranscript processed in UserSpeaking sets
\* current_utterance to the transcript, sends final_transcript, and its
\* handling ends with the state Processing and user_turns raised by 1,
\* whatever the other tasks do meanwhile.
C9_FinalAcceptedAlwaysProcessing ==
    [][ /\ FinalAccepted
        /\ lastOp'.op = "final_transition"
               => /\ state' = PROCESSING
                  /\ metrics'.user_turns = metrics.user_turns + 1
                  /\ current_utterance' = lastOp'.transcript
      ]_vars

\* C9 amended: the utterance and the message are as stated; the transition
\* to Processing is judged on the state found after the send: from
\* UserSpeaking it is made and user_turns rises by 1; from Error (a
\* provider failure came in between) it is rejected and the state stays
\* Error; from Idle (the caller recovered in between) it is made without
\* user_turns rising.
C9_FinalAcceptedAmended ==
    [][ /\ FinalAccepted
        /\ lastOp'.op = "final_transition"
               => /\ state \in {USER_SPEAKING, ERROR, IDLE}
                  /\ state = USER_SPEAKING
                        => /\ state' = PROCESSING
                           /\ metrics'.user_turns = metrics.user_turns + 1
                  /\ state = ERROR
                        => /\ state' = ERROR
                           /\ metrics' = metrics
                  /\ state = IDLE
                        => /\ state' = PROCESSING
                           /\ metrics' = metrics
                  /\ current_utterance' = lastOp'.transcript
      ]_vars

\* C9 witness: the handling of an accepted FinalTranscript has ended in
\* Error, the utterance stored
C9_Witness ==
    /\ lastOp.op = "final_transition"
    /\ lastOp.pre_state = ERROR
    /\ state = ERROR
    /\ current_utterance = lastOp.transcript
    /\ current_utterance \in Transcripts

\* C10: finish_speaking changes neither state nor previous_state nor the
\* active stream id unless the state is AssistantSpeaking; in
\* AssistantSpeaking it leaves the state Idle and the active stream id none.
C10_FinishSpeaking ==
    [][ lastOp'.op = "finish_speaking"
            => IF state = ASSISTANT_SPEAKING
               THEN /\ state' = IDLE
                    /\ tts_stream_id' = NoStream
               ELSE /\ state' = state
                    /\ previous_state' = previous_state
                    /\ tts_stream_id' = tts_stream_id
      ]_vars

\* C10 witness: finish_speaking was called in UserSpeaking (after a
\* barge-in) and the active stream id is still set
C10_Witness ==
    /\ lastOp.op = "finish_speaking"
    /\ lastOp.pre_state = USER_SPEAKING
    /\ state = USER_SPEAKING
    /\ tts_stream_id # NoStream

\* the stream ids of the synthesize_and_stream calls in progress
LiveStreams == {tts[t].stream_id : t \in {u \in ResponseTasks : tts[u].pc # "none"}}

\* C11: synthesize_and_stream takes a fresh stream id and makes it the
\* active one before any chunk is requested; the first chunk received in
\* Processing makes the transition Processing -> AssistantSpeaking, with
\* metadata carrying that stream id, before the chunk goes to the client
\* (the audio_chunk message is stamped with the state AssistantSpeaking).
C11_StreamIdThenFirstChunk ==
    [][ /\ lastOp'.op = "synthesize"
            => /\ lastOp'.stream # NoStream
               /\ lastOp'.stream # tts_stream_id
               /\ lastOp'.stream \notin LiveStreams
               /\ tts_stream_id' = lastOp'.stream
               /\ tts'[lastOp'.task].stream_id = lastOp'.stream
               /\ tts'[lastOp'.task].first_chunk
               /\ lastOp'.msgs = <<>>
               /\ state' = state
        /\ (lastOp'.op = "tts_chunk" /\ lastOp'.first /\ state = PROCESSING)
            => /\ state' = ASSISTANT_SPEAKING
               /\ previous_state' = PROCESSING
               /\ lastOp'.attempts = 1
               /\ lastOp'.md.stream_id = lastOp'.stream
               /\ lastOp'.stream = tts[lastOp'.task].stream_id
               /\ Len(lastOp'.msgs) = 1
               /\ lastOp'.msgs[1].type = "audio_chunk"
               /\ lastOp'.msgs[1].stream_id = lastOp'.stream
               /\ lastOp'.msgs[1].state = ASSISTANT_SPEAKING
      ]_vars

\* C11 witness: the first chunk of the second call of the session has just
\* been forwarded after Processing -> AssistantSpeaking, while the first
\* call is still in progress
C11_Witness ==
    /\ lastOp.op = "tts_chunk"
    /\ lastOp.first
    /\ lastOp.pre_state = PROCESSING
    /\ state = ASSISTANT_SPEAKING
    /\ lastOp.stream = 2
    /\ tts_stream_id = 2
    /\ lastOp.md.stream_id = 2
    /\ Cardinality(LiveStreams) = 2

\* C12 as stated: the first chunk of every synthesize_and_stream call is
\* delivered to the client, the state being looked at only from the second
\* chunk onward.
C12_FirstChunkAlwaysDelivered ==
    (lastOp.op = "tts_chunk" /\ lastOp.first)
        => /\ Sent(lastOp, "audio_chunk") # {}
           /\ lastOp.cancelled = <<>>

\* C12 amended: the state is looked at on every chunk, the first included.
\* A chunk is delivered exactly when the state is AssistantSpeaking, or it
\* is the call's first chunk and the state is Processing; otherwise it is
\* not delivered and cancel_stream is called once with the call's id.
C12_ChunkDeliveredIffStateAllows ==
    lastOp.op = "tts_chunk"
        => IF \/ lastOp.pre_state = ASSISTANT_SPEAKING
              \/ lastOp.first /\ lastOp.pre_state = PROCESSING
           THEN /\ Cardinality(Sent(lastOp, "audio_chunk")) = 1
                /\ lastOp.cancelled = <<>>
           ELSE /\ Sent(lastOp, "audio_chunk") = {}
                /\ lastOp.cancelled = <<lastOp.stream>>

\* C12 witness: the first chunk of a call arrived in Error and was not
\* delivered; the stream was cancelled
C12_Witness ==
    /\ lastOp.op = "tts_chunk"
    /\ lastOp.first
    /\ lastOp.pre_state = ERROR
    /\ Sent(lastOp, "audio_chunk") = {}
    /\ lastOp.cancelled = <<lastOp.stream>>

\* C13: once a FinalTranscript has been accepted and the caller has run
\* synthesize_and_stream to completion for every segment and then called
\* finish_speaking, with no barge-in and no provider exception in between,
\* the state is Idle, for every number of chunks per segment (zero
\* included).
C13_IdleAfterResponse ==
    lastOp.resp = "finished" => state = IDLE

\* the response whose segments yielded no chunk at all: the first-chunk
\* transition never ran, finish_speaking found the state Processing and did
\* nothing
C13_StuckInProcessing ==
    /\ lastOp.op = "finish_speaking"
    /\ lastOp.resp = "finished"
    /\ lastOp.attempts = 0
    /\ state = PROCESSING
    /\ \A t \in ResponseTasks : tts[t].pc = "none"

\* the operations of the session: the handling of every STT event and of a
\* failing event stream, handle_audio_chunk, every step of
\* synthesize_and_stream, and finish_speaking
SessionOps ==
    {"audio_in", "speech_started", "partial_transcript", "final_transcript",
     "final_transition", "speech_ended", "stt_error", "stt_raises",
     "synthesize", "tts_chunk", "tts_exhausted", "tts_raises",
     "tts_error_transitions", "finish_speaking"}

\* C14: once the state is Error no operation of the session moves it out of
\* Error; the state leaves Error only by the caller's explicit
\* transition_to(Idle), which leaves it Idle.
C14_NoAutomaticRecovery ==
    [][ /\ lastOp'.op \in SessionOps \cup {"recover"}
        /\ (state = ERROR /\ lastOp'.op \in SessionOps) => state' = ERROR
        /\ (state = ERROR /\ state' # ERROR)
              => /\ lastOp'.op = "recover"
                 /\ state' = IDLE
                 /\ previous_state' = ERROR ]_vars

\* the session's one attempt to leave Error, the transition to Processing
\* that follows the send of final_transcript, made while a
\* synthesize_and_stream call is in progress, leaves the state Error
C14_Witness ==
    /\ lastOp.op = "final_transition"
    /\ lastOp.pre_state = ERROR
    /\ lastOp.attempts = 1
    /\ state = ERROR
    /\ LiveStreams # {}

\* C15: when the TTS provider raised inside synthesize_and_stream, or the
\* STT event stream raised inside handle_stt_events, the operation ends with
\* the state Error, whatever the state was before.
C15_ProviderExceptionToError ==
    [][ /\ lastOp'.op = "stt_raises"
            => /\ state' = ERROR
               /\ previous_state' = state
        /\ lastOp'.op = "tts_error_transitions"
            => /\ state' = ERROR
               /\ previous_state' = ERROR
               /\ tts'[lastOp'.task].pc = "none" ]_vars

\* the TTS provider raised while the user was speaking
C15_Witness ==
    /\ lastOp.op = "tts_error_transitions"
    /\ lastOp.pre_state = USER_SPEAKING
    /\ state = ERROR

\* C16: every provider failure is surfaced to the client: an STT failure,
\* delivered as an Error-kind event or raised by the event stream, produces
\* an stt_error message, and a TTS exception during synthesize_and_stream
\* produces a tts_error message.
C16_EveryFailureSurfaced ==
    /\ lastOp.op \in {"stt_error", "stt_raises"}
          => Sent(lastOp, "stt_error") # {}
    /\ lastOp.op = "tts_raises" => Sent(lastOp, "tts_error") # {}
    /\ (lastOp.op = "tts_chunk" /\ tts[lastOp.task].pc = "error_sent")
          => Sent(lastOp, "tts_error") # {}

\* the event stream raised: the state is Error and nothing went to the
\* client
C16_RaiseNotSurfaced ==
    /\ lastOp.op = "stt_raises"
    /\ lastOp.msgs = <<>>
    /\ state = ERROR
    /\ stt.pc = "done"

\* C17: after a send to the client transport failed the session is marked
\* inactive, and no further message is handed to the transport.
C17_SendsSuppressedWhenInactive ==
    [][ /\ ~is_active => ~is_active'
        /\ ~is_active => lastOp'.msgs = <<>> ]_vars

\* a message handed to the transport of a session already marked inactive
C17_SentWhileInactive ==
    /\ ~is_active
    /\ lastOp.op = "tts_chunk"
    /\ lastOp.pre_state = ASSISTANT_SPEAKING
    /\ Sent(lastOp, "audio_chunk") # {}
    /\ metrics.user_turns = 0

\* the callbacks that raise
Raising == {"raising", "async_raising"}

\* C18: a callback that raises during a transition is isolated: every other
\* registered on-enter and on-transition callback still runs, the state
\* stays at the new state, and transition_to returns true.
C18_RaisingCallbackIsolated ==
    /\ \A c \in InDispatch :
          (\E i \in 1..mc[c].idx :
                (state_callbacks[mc[c].to] \o transition_callbacks)[i]
                    \in Raising)
            => /\ state = mc[c].to
               /\ locked
    /\ (/\ last.evaluated
        /\ is_valid_transition(last.from, last.to)
        /\ \E i \in DOMAIN state_callbacks[last.to] :
                state_callbacks[last.to][i] \in Raising)
          => /\ last.ret
             /\ last.state_after = last.to
             /\ last.prev_after = last.from
             /\ last.fired = state_callbacks[last.to] \o transition_callbacks

\* a transition whose first on-enter callback raised has returned true
\* after all four registered callbacks ran
C18_Witness ==
    /\ last.ret
    /\ last.from = PROCESSING
    /\ last.to = ASSISTANT_SPEAKING
    /\ state_callbacks[last.to] = <<"raising", "sync">>
    /\ last.fired = <<"raising", "sync", "async", "sync">>
    /\ last.state_after = ASSISTANT_SPEAKING

\* C19: on every successful transition the callbacks are invoked in
\* registration order, synchronous and asynchronous alike: first the
\* on-enter callbacks of the new state, then the on-transition callbacks,
\* and no callback starts before the asynchronous one ahead of it has
\* completed.
C19_CallbacksInRegistrationOrder ==
    /\ \A c \in InDispatch :
          LET registered == state_callbacks[mc[c].to] \o transition_callbacks
          IN  /\ mc[c].idx \in 1..Len(registered)
              /\ registered[mc[c].idx] \in {"async", "async_raising"}
              /\ mc[c].fired = SubSeq(registered, 1, mc[c].idx)
    /\ Cardinality(InDispatch) <= 1
    /\ last.ret
          => last.fired = state_callbacks[last.to] \o transition_callbacks

\* a transition suspended in the asynchronous on-transition callback: the
\* two on-enter callbacks and that one have been invoked, the synchronous
\* on-transition callback registered after it has not
C19_Witness ==
    \E c \in InDispatch :
        /\ state_callbacks[mc[c].to] = <<"raising", "sync">>
        /\ transition_callbacks = <<"async", "sync">>
        /\ mc[c].fired = <<"raising", "sync", "async">>
        /\ mc[c].from = ASSISTANT_SPEAKING
        /\ mc[c].to = USER_SPEAKING

\* C20: for every state s, transition_to(s) called while the machine is in
\* s returns true; the state remains s and previous_state is set to s.
C20_SameStateIdempotent ==
    (/\ last.op = "transition_to"
     /\ last.evaluated
     /\ last.from = last.to)
        => /\ last.ret
           /\ last.state_after = last.from
           /\ last.prev_after = last.from

\* transition_to(Error) in Error, reached from AssistantSpeaking: the call
\* returned true and previous_state went from AssistantSpeaking to Error
C20_Witness ==
    /\ last.op = "transition_to"
    /\ last.evaluated
    /\ last.from = ERROR
    /\ last.to = ERROR
    /\ last.prev_before = ASSISTANT_SPEAKING
    /\ last.prev_after = ERROR
    /\ last.ret
    /\ state = ERROR
    /\ previous_state = ERROR

\* C21: a SpeechStarted event processed in Idle leaves the state
\* UserSpeaking without counting a barge-in; processed in UserSpeaking,
\* Processing or Error it is ignored: no transition, no metric change and
\* no message to the client.
C21_SpeechStartedOutsideSpeaking ==
    [][ lastOp'.op = "speech_started"
          => /\ state = IDLE
                  => /\ state' = USER_SPEAKING
                     /\ previous_state' = IDLE
                     /\ metrics' = metrics
                     /\ lastOp'.msgs = <<>>
             /\ state \in {USER_SPEAKING, PROCESSING, ERROR}
                  => /\ state' = state
                     /\ previous_state' = previous_state
                     /\ metrics' = metrics
                     /\ lastOp'.attempts = 0
                     /\ lastOp'.msgs = <<>> ]_vars

\* the second turn of a session opens: SpeechStarted found the state Idle
C21_Witness ==
    /\ lastOp.op = "speech_started"
    /\ lastOp.pre_state = IDLE
    /\ state = USER_SPEAKING
    /\ previous_state = IDLE
    /\ metrics.user_turns = 1
    /\ metrics.barge_ins = 0

\* C22: PartialTranscript, SpeechEnded and Error events never cause a state
\* transition: processing one leaves state, previous_state,
\* current_utterance and the metrics unchanged.  PartialTranscript sends
\* one partial_transcript message, Error one stt_error message, SpeechEnded
\* nothing.
C22_NonTransitioningEvents ==
    [][ lastOp'.op \in {"partial_transcript", "speech_ended", "stt_error"}
          => /\ state' = state
             /\ previous_state' = previous_state
             /\ current_utterance' = current_utterance
             /\ metrics' = metrics
             /\ lastOp'.attempts = 0
             /\ lastOp'.op = "partial_transcript"
                  => /\ Len(lastOp'.msgs) = 1
                     /\ lastOp'.msgs[1].type = "partial_transcript"
                     /\ lastOp'.msgs[1].transcript = lastOp'.transcript
                     /\ lastOp'.msgs[1].state = state
             /\ lastOp'.op = "stt_error"
                  => /\ Len(lastOp'.msgs) = 1
                     /\ lastOp'.msgs[1].type = "stt_error"
                     /\ lastOp'.msgs[1].state = state
             /\ lastOp'.op = "speech_ended" => lastOp'.msgs = <<>> ]_vars

\* an Error event processed while the assistant speaks, after a turn with
\* an utterance: the assistant is still speaking
C22_Witness ==
    /\ lastOp.op = "stt_error"
    /\ lastOp.pre_state = ASSISTANT_SPEAKING
    /\ state = ASSISTANT_SPEAKING
    /\ current_utterance # ""
    /\ metrics.assistant_turns = 1
    /\ Sent(lastOp, "stt_error") # {}

\* the steps of synthesize_and_stream
StreamOps ==
    {"synthesize", "tts_chunk", "tts_exhausted", "tts_raises",
     "tts_error_transitions"}

\* C23: synthesize_and_stream never transitions the state to Idle.  When a
\* call that delivered at least one chunk ends with the provider's stream
\* exhausted, no barge-in and no exception having happened, the state is
\* still AssistantSpeaking and the call's stream id is still the active
\* one; the first chunk of a following segment is delivered in
\* AssistantSpeaking.
C23_SegmentEndKeepsSpeaking ==
    /\ (lastOp.op \in StreamOps /\ state = IDLE) => lastOp.pre_state = IDLE
    /\ lastOp.op = "tts_exhausted" => state = lastOp.pre_state
    /\ (/\ lastOp.op = "tts_exhausted"
        /\ lastOp.resp = "segment_done"
        /\ ~lastOp.first)
          => /\ state = ASSISTANT_SPEAKING
             /\ tts_stream_id = lastOp.stream
    /\ (/\ lastOp.op = "tts_chunk"
        /\ lastOp.resp = "in_segment"
        /\ lastOp.first
        /\ lastOp.pre_state = ASSISTANT_SPEAKING)
          => /\ state = ASSISTANT_SPEAKING
             /\ previous_state = ASSISTANT_SPEAKING
             /\ Cardinality(Sent(lastOp, "audio_chunk")) = 1

\* the second segment of a response has ended after delivering a chunk
C23_Witness ==
    /\ lastOp.op = "tts_exhausted"
    /\ lastOp.resp = "segment_done"
    /\ ~lastOp.first
    /\ lastOp.stream = 2
    /\ tts_stream_id = 2
    /\ state = ASSISTANT_SPEAKING
    /\ metrics.assistant_turns = 1

C25_EndToEndTurn ==
    /\ lastOp.turn = "heard" => state = USER_SPEAKING
    /\ lastOp.turn = "final_sent"
          => /\ state = USER_SPEAKING
             /\ lastOp.transcript \in {"t1", "t2"}
             /\ current_utterance = lastOp.transcript
    /\ lastOp.turn = "accepted"
          => /\ state = PROCESSING
             /\ lastOp.transcript \in {"t1", "t2"}
             /\ current_utterance = lastOp.transcript
             /\ metrics.user_turns = 1
    /\ lastOp.turn = "called" => state = PROCESSING
    /\ lastOp.turn = "speaking"
          => /\ state = ASSISTANT_SPEAKING
             /\ metrics.assistant_turns = 1
    /\ lastOp.turn = "done"
          => /\ state = IDLE
             /\ previous_state = ASSISTANT_SPEAKING
             /\ metrics.user_turns = 1
             /\ metrics.assistant_turns = 1
             /\ metrics.barge_ins = 0
             /\ tts_stream_id = NoStream

\* the turn has ended: finish_speaking was called after the stream of the
\* one call was exhausted
C25_Witness ==
    /\ lastOp.turn = "done"
    /\ lastOp.op = "finish_speaking"
    /\ \A t \in ResponseTasks : tts[t].pc = "none"
    /\ current_utterance = "t2"
    /\ state = IDLE
    /\ metrics = [user_turns |-> 1, assistant_turns |-> 1, barge_ins |-> 0]

\* C26: after two sessions were created and one of them closed by
\* close_session, get_session on the closed id returns none, while the
\* other id is still registered and its session is still active, its STT
\* stream and STT task as they were: no step of close_session(a) changes
\* another session or its registration.
C26_CloseLeavesOtherSession ==
    [][ lastMgr'.part_of = "close_session"
          => /\ \A b \in SessionIds \ {lastMgr'.id} :
                   /\ sess'[b] = sess[b]
                   /\ b \in registry' <=> b \in registry
             /\ (lastMgr'.op = "close_session"
                 /\ lastMgr'.outcome = "returned")
                   => lastMgr'.id \notin registry' ]_vars

\* session 1 has been closed; session 2 is registered, active, its stream
\* started and its task running
C26_Witness ==
    /\ lastMgr.op = "close_session"
    /\ lastMgr.outcome = "returned"
    /\ lastMgr.found
    /\ lastMgr.id = 1
    /\ get_session(1) = NoId
    /\ get_session(2) = 2
    /\ sess[1].closed
    /\ sess[2] = [NewSession EXCEPT !.stream = "started",
                                    !.task = "running"]

\* C27: close_session on a registered id stops the STT stream of that id,
\* cancels the session's STT-event task, marks the session inactive and
\* removes the id from the registry: a session whose close_session has
\* returned has no started stream and no running task.  On an id that is
\* not registered close_session does nothing and raises nothing.
C27_CloseSessionTearsDown ==
    /\ \A id \in SessionIds :
          sess[id].closed
            => /\ ~sess[id].active
               /\ id \notin registry
               /\ sess[id].stream # "started"
               /\ sess[id].task # "running"
    /\ (lastMgr.op = "close_session" /\ ~lastMgr.found)
          => lastMgr.outcome = "returned"

\* close_session has returned for a session that create_session was still
\* starting: its stream is started and its task running, outside the
\* registry
C27_RunningAfterClose ==
    \E id \in SessionIds :
        /\ sess[id].closed
        /\ sess[id].stream = "started"
        /\ sess[id].task = "running"
        /\ id \notin registry
        /\ lastMgr.op = "create_session"
        /\ lastMgr.id = id

\* C28: create_session starts the STT stream of the new id and spawns the
\* STT-event task before it registers the session: every registered
\* session has a started stream and a spawned task, and a create_session
\* whose start_stream failed leaves no entry in the registry.
C28_RegisteredOnceStarted ==
    /\ \A id \in registry :
          /\ sess[id].stream # "none"
          /\ sess[id].task # "none"
    /\ (lastMgr.op = "create_session"
        /\ lastMgr.outcome = "provider_error")
          => lastMgr.id \notin registry

\* start_stream has raised: the session stays registered and active,
\* without a stream and without a task
C28_EntryLeftAfterFailure ==
    /\ lastMgr.op = "create_session"
    /\ lastMgr.outcome = "provider_error"
    /\ get_session(lastMgr.id) = lastMgr.id
    /\ sess[lastMgr.id] = NewSession

\* C29: cleanup_inactive_sessions closes and removes exactly the registered
\* sessions that are marked inactive or whose last-activity age exceeds the
\* threshold: it selects those, no step of it touches another session, and
\* when it ends (no provider having raised) every selected session is
\* inactive and out of the registry.
C29_SweepClosesExactlySelected ==
    [][ lastMgr'.part_of = "cleanup_inactive_sessions"
          => /\ lastMgr'.begins
                  => lastMgr'.selected =
                        {id \in registry :
                            ~sess[id].active \/ id \in lastMgr'.aged}
             /\ \A b \in SessionIds \ lastMgr'.selected :
                   /\ sess'[b] = sess[b]
                   /\ b \in registry' <=> b \in registry
             /\ (/\ lastMgr'.op = "cleanup_inactive_sessions"
                 /\ lastMgr'.outcome # "provider_error")
                  => \A id \in lastMgr'.selected :
                        /\ id \notin registry'
                        /\ ~sess'[id].active ]_vars

\* the sweep ended by the KeyError of its first close_session: the second
\* session it selected is still registered and active
C29_SweepAborted ==
    /\ lastMgr.op = "cleanup_inactive_sessions"
    /\ lastMgr.outcome = "KeyError"
    /\ lastMgr.selected = {1, 2}
    /\ lastMgr.id = 1
    /\ get_session(2) = 2
    /\ sess[2].active
    /\ sess[2].task = "running"

\* C30: when close_all_sessions returns, the registry is empty and every
\* session that was registered has been closed (inactive, STT stream
\* stopped, STT task cancelled), also when create_session calls overlap
\* with it.
C30_CloseAllLeavesNothing ==
    (lastMgr.op = "close_all_sessions" /\ lastMgr.outcome = "returned")
        => /\ registry = {}
           /\ \A id \in lastMgr.selected :
                 /\ ~sess[id].active
                 /\ sess[id].stream # "started"
                 /\ sess[id].task # "running"

\* close_all_sessions has returned after closing session 1; session 2,
\* created while it was suspended, is registered, active and running
C30_CreatedDuringShutdown ==
    /\ lastMgr.op = "close_all_sessions"
    /\ lastMgr.outcome = "returned"
    /\ lastMgr.selected = {1}
    /\ sess[1].closed
    /\ registry = {2}
    /\ sess[2] = [NewSession EXCEPT !.stream = "started",
                                    !.task = "running"]

\* C32: handle_audio_chunk forwards the chunk to the STT provider and
\* updates last_activity, and never interacts with the state machine: in
\* every state, the step leaves state, previous_state, the active stream
\* id, current_utterance and the metrics as they were, and no other
\* operation of the session forwards audio or sets last_activity.
C32_AudioChunkOnlyForwards ==
    [][ /\ lastOp'.op = "audio_in"
             => /\ lastOp'.forwarded
                /\ lastOp'.touched
                /\ lastOp'.attempts = 0
                /\ UNCHANGED <<state, previous_state, tts_stream_id,
                               current_utterance, metrics>>
        /\ lastOp'.op # "audio_in"
             => ~lastOp'.forwarded /\ ~lastOp'.touched ]_vars

\* an audio chunk has arrived while the assistant was speaking its first
\* response: the state is still AssistantSpeaking, with its stream id, the
\* utterance and the counted turns
C32_Witness ==
    /\ lastOp.op = "audio_in"
    /\ lastOp.forwarded
    /\ lastOp.pre_state = ASSISTANT_SPEAKING
    /\ state = ASSISTANT_SPEAKING
    /\ previous_state = PROCESSING
    /\ tts_stream_id = 1
    /\ current_utterance = "t1"
    /\ metrics = [user_turns |-> 1, assistant_turns |-> 1, barge_ins |-> 0]

\* C33: a synthesize_and_stream call of an interrupted response never
\* resumes speaking.  When the barge_in message went out while the call's
\* stream id was the active one and before its first chunk arrived, and the
\* first chunk finds the state Processing again (a FinalTranscript was
\* accepted since), the call forwards no audio_chunk and makes no
\* transition: the state is not AssistantSpeaking after it.
C33_InterruptedCallStaysSilent ==
    (/\ lastOp.op = "tts_chunk"
     /\ lastOp.first
     /\ lastOp.barged
     /\ lastOp.pre_state = PROCESSING)
        => /\ Sent(lastOp, "audio_chunk") = {}
           /\ lastOp.attempts = 0
           /\ state # ASSISTANT_SPEAKING

\* the first chunk of the second call, interrupted before it arrived, has
\* been forwarded under the call's own stream id after the user's second
\* utterance was accepted, and has moved the state to AssistantSpeaking
C33_InterruptedCallResumes ==
    /\ lastOp.op = "tts_chunk"
    /\ lastOp.first
    /\ lastOp.barged
    /\ lastOp.pre_state = PROCESSING
    /\ lastOp.stream = 2
    /\ \E i \in Sent(lastOp, "audio_chunk") :
          lastOp.msgs[i].stream_id = lastOp.stream
    /\ lastOp.attempts = 1
    /\ state = ASSISTANT_SPEAKING
    /\ metrics = [user_turns |-> 2, assistant_turns |-> 2, barge_ins |-> 1]

\* C35: close_session is safe under concurrent invocation for the same
\* id: no call of it (made directly, by the sweep or by the shutdown) ends
\* with an exception of its own making - the providers aside, every call
\* returns - and a session for which one has returned is closed:
\* inactive and out of the registry.
C35_ConcurrentCloseSafe ==
    /\ lastMgr.outcome \in {"none", "returned", "provider_error"}
    /\ \A id \in SessionIds :
          sess[id].closed => ~sess[id].active /\ id \notin registry

\* two overlapping close_session calls for session 1: the first has
\* deleted the id and returned, the second has come back from close() and
\* raised KeyError at its del
C35_SecondCloseRaises ==
    /\ lastMgr.op = "close_session"
    /\ lastMgr.part_of = "close_session"
    /\ lastMgr.found
    /\ lastMgr.outcome = "KeyError"
    /\ lastMgr.id = 1
    /\ sess[1].closed
    /\ get_session(1) = NoId
    /\ \A m \in ManagerTasks : mt[m].pc = "idle"

\* C36: no orphaned session.  At every moment, a session with a running
\* STT-event task or a started and not stopped STT stream is in the
\* registry; and the session create_session returns is retrievable by
\* get_session, also when create_session overlaps with close_session or
\* close_all_sessions.
C36_NoOrphanedSession ==
    /\ \A id \in SessionIds :
          (sess[id].task = "running" \/ sess[id].stream = "started")
              => id \in registry
    /\ (lastMgr.op = "create_session" /\ lastMgr.outcome = "returned")
          => get_session(lastMgr.id) = lastMgr.id

\* a close_session of session 1 (called directly or by close_all_sessions)
\* ran and returned while create_session was still starting the stream;
\* create_session then returned the session: active flag off, stream
\* started, task running, and get_session does not find it
C36_ReturnedOutsideRegistry ==
    /\ lastMgr.op = "create_session"
    /\ lastMgr.outcome = "returned"
    /\ lastMgr.id = 1
    /\ get_session(1) = NoId
    /\ registry = {}
    /\ sess[1].task = "running"
    /\ sess[1].stream = "started"
    /\ ~sess[1].active
    /\ \A m \in ManagerTasks : mt[m].pc = "idle"

\* C37: in every reachable state of a session driven by its own
\* operations (STT events, synthesize_and_stream, finish_speaking, provider
\* errors, the caller's recovery from Error), the metrics satisfy
\* barge_ins <= assistant_turns <= user_turns.
C37_MetricsOrdered ==
    /\ metrics.barge_ins <= metrics.assistant_turns
    /\ metrics.assistant_turns <= metrics.user_turns

\* the second response has started speaking although only one user turn
\* was counted: the second utterance reached Processing from Idle, after a
\* failure of the interrupted call and the caller's recovery
C37_MoreAssistantTurnsThanUserTurns ==
    /\ metrics = [user_turns |-> 1, assistant_turns |-> 2, barge_ins |-> 1]
    /\ lastOp.op = "tts_chunk"
    /\ lastOp.first
    /\ lastOp.pre_state = PROCESSING
    /\ state = ASSISTANT_SPEAKING
    /\ current_utterance # ""

\* C38: audio is only ever sent while the assistant is speaking.  Every
\* audio_chunk message handed to the client carries state
\* assistant_speaking, the machine is in AssistantSpeaking when it is
\* sent, and the active stream id is not none at that moment.
C38_AudioOnlyWhileSpeaking ==
    \A i \in Sent(lastOp, "audio_chunk") :
        /\ lastOp.msgs[i].state = ASSISTANT_SPEAKING
        /\ state = ASSISTANT_SPEAKING
        /\ tts_stream_id # NoStream

\* the first chunk of a call made for the previous response has been sent
\* as audio_chunk, state assistant_speaking, after finish_speaking had
\* cleared the active stream id: audio goes out while no stream is active
C38_AudioWithNoActiveStream ==
    /\ lastOp.op = "tts_chunk"
    /\ lastOp.first
    /\ \E i \in Sent(lastOp, "audio_chunk") :
          /\ lastOp.msgs[i].state = ASSISTANT_SPEAKING
          /\ lastOp.msgs[i].stream_id = lastOp.stream
    /\ state = ASSISTANT_SPEAKING
    /\ tts_stream_id = NoStream
    /\ metrics.user_turns = 2

====
